---- MODULE Spec2Model ----
(***************************************************************************)
(* A model of im_artifact_finder: the memory-carving engine that recovers  *)
(* Telegram Desktop artifacts from region dumps.                            *)
(*                                                                         *)
(* Memory is modelled at byte level.  A dump directory is a list of        *)
(* regions (one per <hex_base>_<hex_size>.dmp file, in os.listdir order)   *)
(* and the bytes of the files.  The bytes are kept sparsely: `mem` maps    *)
(* the absolute addresses that hold a non-zero byte to that byte, every    *)
(* other address inside a region holds 0.                                   *)
(*                                                                         *)
(* Python values: None is <<>> and a present value x is <<x>> wherever a   *)
(* function may return None; a dictionary is a function whose DOMAIN is    *)
(* its key set; bytes and str are sequences (str: UTF-16 code units).      *)
(***************************************************************************)
EXTENDS Integers, Sequences, FiniteSets, TLC

VARIABLES
    regions,    \* the .dmp files in os.listdir order: <<[base, size], ...>>
    mem,        \* the non-zero bytes of the files, by absolute address
    unreadable, \* the listed files that open() or mmap.mmap() fails on
    layout,     \* what Init put into memory (read by the claims only)
    pc,         \* position of the run
    result,     \* the last call of an engine function and what it returned
    \* ArtifactFinder.find_accounts
    users,                  \* the analysed user records
    messages,               \* the analysed message records
    organized_accounts,     \* what organize_before_creation returned
    account_objects,        \* the artifact tree
    \* TelegramDesktopArtifactExtractor.extract_users
    raw_users,              \* the windows found so far
    user_addresses,         \* addresses of the users found by phone number
    new_user_addresses,     \* addresses of the users found next to them
    user_index,             \* position of the for loop in user_addresses
    next_user_address,      \* the address the while loop looks at
    \* finder.py execute
    directories,            \* the directories that exist, with their file names
    exit_status             \* None while the process runs, then its exit status

vars == <<regions, mem, unreadable, layout, pc, result,
          users, messages, organized_accounts, account_objects,
          raw_users, user_addresses, new_user_addresses, user_index,
          next_user_address, directories, exit_status>>

dump == <<regions, mem, unreadable>>
finder == <<users, messages, organized_accounts, account_objects>>
walk == <<raw_users, user_addresses, new_user_addresses, user_index,
          next_user_address>>
process == <<directories, exit_status>>

None == <<>>
Some(x) == <<x>>
IsNone(o) == o = <<>>
Val(o) == o[1]

Max(a, b) == IF a >= b THEN a ELSE b
Min(a, b) == IF a <= b THEN a ELSE b

(***************************************************************************)
(* Addresses are 64-bit in the program.  Every region of the model lies    *)
(* below Far; a pointer value of Far or more is kept as Far, which is in   *)
(* no region and stays in no region under the offsets the engine adds.      *)
(***************************************************************************)
Far == 1048576

\* the byte a region file holds at an absolute address
Byte(a) == IF a \in DOMAIN mem THEN mem[a] ELSE 0

Contains(r, a) == r.base <= a /\ a < r.base + r.size

\* mmap_object[lo:hi] of the file of region r: Python slice semantics on a
\* buffer of r.size bytes (negative indices count from the end, both ends
\* are clamped), as a sequence of bytes
PySliceLo(n, lo) == IF lo < 0 THEN Max(n + lo, 0) ELSE Min(lo, n)
PySlice(r, lo, hi) ==
    LET l == PySliceLo(r.size, lo)
        h == PySliceLo(r.size, hi)
    IN  IF h <= l THEN <<>>
        ELSE [k \in 1..(h - l) |-> Byte(r.base + l + k - 1)]

\* extractors.py extract_surroundings, from the i-th listed file on
RECURSIVE ExtractSurroundingsFrom(_, _, _, _)
ExtractSurroundingsFrom(i, address, above, below) ==
    IF i > Len(regions) THEN None
    ELSE LET r == regions[i]
             start_offset == address - r.base
         IN  IF /\ Contains(r, address)
                /\ address - above >= r.base
                /\ address + below < r.base + r.size
             THEN Some(PySlice(r, start_offset - above, start_offset + below))
             ELSE ExtractSurroundingsFrom(i + 1, address, above, below)

\* extract_surroundings without the check of the window's upper end
RECURSIVE ExtractSurroundingsNoUpperCheck(_, _, _, _)
ExtractSurroundingsNoUpperCheck(i, address, above, below) ==
    IF i > Len(regions) THEN None
    ELSE LET r == regions[i]
             start_offset == address - r.base
         IN  IF Contains(r, address) /\ address - above >= r.base
             THEN Some(PySlice(r, start_offset - above, start_offset + below))
             ELSE ExtractSurroundingsNoUpperCheck(i + 1, address, above, below)

ExtractSurroundings_Mutant(address, above, below) ==
    ExtractSurroundingsNoUpperCheck(1, address, above, below)

ExtractSurroundings(address, above, below) ==
    ExtractSurroundingsFrom(1, address, above, below)

(***************************************************************************)
(* QString contents.  The lax pattern of extractors.py line 47,            *)
(*   [\x00-\xff]{16} \x18 [\x00]{7} [\x00-\xff]*? [\x00]{2}              *)
(* matched at offset p of a region file: 16 bytes of any value, the tag    *)
(* 0x18, seven zero bytes, then as few bytes as possible up to the first   *)
(* two consecutive zero bytes.                                              *)
(***************************************************************************)
QStringTag == 24
QStringHeaderSize == 24

RegionByte(r, off) == Byte(r.base + off)

\* the first offset q' >= q with two zero bytes at q', q'+1 inside the file; -1 if none
RECURSIVE FirstZeroPair(_, _)
FirstZeroPair(r, q) ==
    IF q + 2 > r.size THEN -1
    ELSE IF RegionByte(r, q) = 0 /\ RegionByte(r, q + 1) = 0 THEN q
    ELSE FirstZeroPair(r, q + 1)

\* the end (exclusive) of the lax pattern's match starting at offset p; -1 if none
LaxMatchEnd(r, p) ==
    IF /\ p >= 0
       /\ p + QStringHeaderSize <= r.size
       /\ RegionByte(r, p + 16) = QStringTag
       /\ \A k \in 17..23 : RegionByte(r, p + k) = 0
    THEN LET z == FirstZeroPair(r, p + QStringHeaderSize)
         IN  IF z = -1 THEN -1 ELSE z + 2
    ELSE -1

\* qstring_contents_pattern.search(mmap_object, start_offset): the start of
\* the leftmost match at or after start_offset; -1 if none
LaxSearch(r, start_offset) ==
    LET hits == {p \in start_offset..(r.size - 1) : LaxMatchEnd(r, p) # -1}
    IN  IF hits = {} THEN -1 ELSE CHOOSE p \in hits : \A q \in hits : p <= q

\* extractors.py is_address_of_qstring_contents.  search() returns the
\* leftmost match at or after start_offset, so match.start() == start_offset
\* exactly when the pattern matches at start_offset itself.
IsAddressOfQstringContents(address) ==
    \E i \in 1..Len(regions) :
        /\ Contains(regions[i], address)
        /\ LaxMatchEnd(regions[i], address - regions[i].base) # -1

\* struct.unpack('<i', b): four bytes as a signed 32-bit little-endian integer
UnpackI32(b) ==
    b[1] + 256 * b[2] + 65536 * b[3]
        + 16777216 * (IF b[4] >= 128 THEN b[4] - 256 ELSE b[4])

\* seq[lo:hi] on a Python bytes object
PySliceSeq(seq, lo, hi) ==
    LET l == PySliceLo(Len(seq), lo)
        h == PySliceLo(Len(seq), hi)
    IN  IF h <= l THEN <<>> ELSE [k \in 1..(h - l) |-> seq[l + k]]

\* match_contents[24:24 + n * 2]; the end index is clamped before the
\* multiplication, which gives the same slice for every 32-bit n
TextSlice(match_contents, n) ==
    LET len == Len(match_contents)
        hi == IF n >= len THEN len ELSE IF n <= -len THEN -len ELSE 24 + n * 2
    IN  PySliceSeq(match_contents, 24, hi)

IsHighSurrogate(u) == 55296 <= u /\ u <= 56319
IsLowSurrogate(u) == 56320 <= u /\ u <= 57343

\* the code units of an even number of bytes
CodeUnits(b) == [k \in 1..(Len(b) \div 2) |-> b[2 * k - 1] + 256 * b[2 * k]]

RECURSIVE WellFormedFrom(_, _)
WellFormedFrom(u, k) ==
    IF k > Len(u) THEN TRUE
    ELSE IF IsHighSurrogate(u[k])
         THEN k + 1 <= Len(u) /\ IsLowSurrogate(u[k + 1]) /\ WellFormedFrom(u, k + 2)
    ELSE IF IsLowSurrogate(u[k]) THEN FALSE
    ELSE WellFormedFrom(u, k + 1)

\* bytes.decode('utf-16-le'): the text as its UTF-16 code units, or None
\* where Python raises UnicodeDecodeError (a truncated unit, a lone surrogate)
DecodeUtf16LE(b) ==
    IF Len(b) % 2 = 1 THEN None
    ELSE IF WellFormedFrom(CodeUnits(b), 1) THEN Some(CodeUnits(b)) ELSE None

\* 'Error when decoding from UTF-16'
DecodeErrorText ==
    <<69, 114, 114, 111, 114, 32, 119, 104, 101, 110, 32, 100, 101, 99, 111,
      100, 105, 110, 103, 32, 102, 114, 111, 109, 32, 85, 84, 70, 45, 49, 54>>

\* extractors.py extract_qstring_text, from the i-th listed file on
RECURSIVE ExtractQstringTextFrom(_, _)
ExtractQstringTextFrom(i, address) ==
    IF i > Len(regions) THEN None
    ELSE LET r == regions[i]
             start == LaxSearch(r, address - r.base)
         IN  IF Contains(r, address) /\ start # -1
             THEN LET match_contents ==
                          PySlice(r, start, LaxMatchEnd(r, start))
                      text_length == UnpackI32(PySliceSeq(match_contents, 4, 8))
                      decoded == DecodeUtf16LE(TextSlice(match_contents, text_length))
                  IN  IF IsNone(decoded) THEN Some(DecodeErrorText) ELSE decoded
             ELSE ExtractQstringTextFrom(i + 1, address)

ExtractQstringText(address) == ExtractQstringTextFrom(1, address)

(***************************************************************************)
(* Region Store reads: the specification SpecStore.                         *)
(* Init draws a dump directory of two regions, adjacent or with a gap, in  *)
(* either listing order, every byte non-zero and different from its        *)
(* neighbours; the action reads a window around any address near them.     *)
(***************************************************************************)
MaxRegionSize == 6
MaxAbove == 3
MaxBelow == 3

FillByte(a) == (a % 250) + 1

StoreMem(rs) ==
    [a \in UNION {r.base .. (r.base + r.size - 1) : r \in {rs[i] : i \in 1..Len(rs)}}
        |-> FillByte(a)]

NoResult == [op |-> "none"]

\* find_accounts has not run
IdleFinder ==
    /\ users = <<>>
    /\ messages = <<>>
    /\ organized_accounts = <<>>
    /\ account_objects = <<>>

\* the engine is called on the dump directory itself: execute() and the
\* command line are not part of the run
IdleProcess ==
    /\ directories = <<>>
    /\ exit_status = <<>>

\* every listed file can be opened and mapped
AllReadable == unreadable = {}

\* extract_users has not run
IdleExtractor ==
    /\ raw_users = <<>>
    /\ user_addresses = <<>>
    /\ new_user_addresses = <<>>
    /\ user_index = 0
    /\ next_user_address = 0

InitStore ==
    /\ \E base \in {0, 16}, size \in 1..MaxRegionSize, gap \in {0, 3}, rev \in BOOLEAN :
          LET r1 == [base |-> base, size |-> size]
              r2 == [base |-> base + size + gap, size |-> size]
          IN  /\ regions = IF rev THEN <<r2, r1>> ELSE <<r1, r2>>
              /\ mem = StoreMem(<<r1, r2>>)
              /\ layout = [kind |-> "store", gap |-> gap]
    /\ pc = "store"
    /\ result = NoResult
    /\ IdleFinder
    /\ IdleExtractor
    /\ AllReadable
    /\ IdleProcess

StoreAddrs ==
    LET bases == {regions[i].base : i \in 1..Len(regions)}
        ends == {regions[i].base + regions[i].size : i \in 1..Len(regions)}
        lo == CHOOSE b \in bases : \A c \in bases : b <= c
        hi == CHOOSE e \in ends : \A f \in ends : e >= f
    IN  (lo - 2) .. (hi + 1)

DoExtractSurroundings ==
    /\ pc = "store"
    /\ \E a \in StoreAddrs, above \in 0..MaxAbove, below \in 0..MaxBelow :
          result' = [op |-> "extract_surroundings", address |-> a,
                     above |-> above, below |-> below,
                     value |-> ExtractSurroundings(a, above, below)]
    /\ UNCHANGED <<dump, process, layout, pc, finder, walk>>

NextStore == DoExtractSurroundings

SpecStore == InitStore /\ [][NextStore]_vars

\* the window [lo, lo + n) lies in one region of the directory
InOneRegion(lo, n) ==
    \E i \in 1..Len(regions) :
        regions[i].base <= lo /\ lo + n <= regions[i].base + regions[i].size

\* the bytes of memory at [lo, lo + n)
MemBytes(lo, n) == [k \in 1..n |-> Byte(lo + k - 1)]

\* C1: a read returns absent or exactly above+below bytes, the bytes of
\* [A-above, A+below), all inside the one region that contains A; never a
\* shorter window and never bytes of two regions.
C1_WindowExactAndInOneRegion ==
    result.op = "extract_surroundings" /\ ~IsNone(result.value) =>
        LET w == Val(result.value)
            lo == result.address - result.above
            n == result.above + result.below
        IN  /\ Len(w) = n
            /\ w = MemBytes(lo, n)
            /\ \E i \in 1..Len(regions) :
                  /\ Contains(regions[i], result.address)
                  /\ regions[i].base <= lo
                  /\ lo + n <= regions[i].base + regions[i].size

\* C1 witness: a window is returned that ends one byte before the end of
\* its region, with a second region starting right at that end.
C1_Witness ==
    /\ result.op = "extract_surroundings"
    /\ ~IsNone(result.value)
    /\ result.above > 0 /\ result.below > 0
    /\ \E i, j \in 1..Len(regions) :
          /\ Contains(regions[i], result.address)
          /\ result.address + result.below + 1 = regions[i].base + regions[i].size
          /\ regions[j].base = regions[i].base + regions[i].size

\* C2: a read is absent if and only if the window does not lie entirely
\* within a single region; a window whose last byte is the region's last
\* byte is returned.
C2_AbsentIffNotInOneRegion ==
    result.op = "extract_surroundings" /\ result.above + result.below > 0 =>
        (IsNone(result.value) <=>
            ~InOneRegion(result.address - result.above, result.above + result.below))

(***************************************************************************)
(* Building dump contents for the initial states.                          *)
(***************************************************************************)
\* the bytes b written at address a
PutBytes(a, b) == [x \in a..(a + Len(b) - 1) |-> b[x - a + 1]]

\* struct.pack('<Q', v) for 0 <= v < 2^31
PackQ(v) ==
    <<v % 256, (v \div 256) % 256, (v \div 65536) % 256, (v \div 16777216) % 256,
      0, 0, 0, 0>>

\* the value of a set of one value: TheOnly({e(x) : x \in {v}}) is e(x) with
\* the local variable x assigned v once
TheOnly(S) == CHOOSE x \in S : TRUE

RECURSIVE Flatten(_)
Flatten(ss) ==
    TheOnly({IF s = <<>> THEN <<>> ELSE Head(s) \o Flatten(Tail(s)) : s \in {ss}})

\* a QString contents block: 16 header bytes with the character count at
\* offset 4, the tag byte and seven zeros, the text, two zero bytes
QStringBlock(count, tag, text_bytes) ==
    <<1, 0, 0, 0, count % 256, count \div 256, 0, 0, 0, 0, 0, 128, 0, 0, 0, 0>>
        \o <<tag, 0, 0, 0, 0, 0, 0, 0>> \o text_bytes \o <<0, 0>>

\* n bytes read as an unsigned little-endian integer, kept below Far
RECURSIVE LEToInt(_)
LEToInt(b) ==
    TheOnly({IF s = <<>> THEN 0
             ELSE TheOnly({IF hi * 256 + Head(s) >= Far THEN Far
                           ELSE hi * 256 + Head(s) :
                              hi \in {LEToInt(Tail(s))}}) :
                s \in {b}})

(***************************************************************************)
(* QString recognition and decoding: the specification SpecQString.        *)
(* Init draws one region holding a QString contents block whose text is    *)
(* any string of up to MaxTextLen code units over '1', U+4E00 and a lone   *)
(* high surrogate, with a right or a wrong tag byte, optionally followed   *)
(* by a second block; the actions ask both functions about any address.    *)
(***************************************************************************)
MaxTextLen == 2

UnitDigit == <<49, 0>>      \* '1'
UnitCJK == <<0, 78>>        \* U+4E00
UnitHigh == <<61, 216>>     \* U+D83D, a high surrogate
TextUnits == {UnitDigit, UnitCJK, UnitHigh}

Texts == UNION {[1..n -> TextUnits] : n \in 0..MaxTextLen}

InitQString ==
    /\ \E qoff \in {0, 4}, text \in Texts, tag \in {QStringTag, QStringTag + 1},
          second \in BOOLEAN :
          LET base == 256
              first == QStringBlock(Len(text), tag, Flatten(text))
              other == IF second THEN QStringBlock(1, QStringTag, UnitDigit) ELSE <<>>
              size == qoff + Len(first) + Len(other)
          IN  /\ regions = <<[base |-> base, size |-> size]>>
              /\ mem = PutBytes(base + qoff, first \o other)
              /\ layout = [kind |-> "qstring", block |-> base + qoff,
                           text |-> text, tag |-> tag, second |-> second]
    /\ pc = "qstring"
    /\ result = NoResult
    /\ IdleFinder
    /\ IdleExtractor
    /\ AllReadable
    /\ IdleProcess

DoIsAddressOfQstringContents ==
    /\ pc = "qstring"
    /\ \E a \in (regions[1].base - 1)..(regions[1].base + regions[1].size) :
          result' = [op |-> "is_address_of_qstring_contents", address |-> a,
                     is_q |-> IsAddressOfQstringContents(a)]
    /\ UNCHANGED <<dump, process, layout, pc, finder, walk>>

DoExtractQstringText ==
    /\ pc = "qstring"
    /\ result.op = "is_address_of_qstring_contents"
    /\ result' = [op |-> "extract_qstring_text", address |-> result.address,
                  is_q |-> result.is_q,
                  text |-> ExtractQstringText(result.address)]
    /\ UNCHANGED <<dump, process, layout, pc, finder, walk>>

NextQString == DoIsAddressOfQstringContents \/ DoExtractQstringText

SpecQString == InitQString /\ [][NextQString]_vars

\* the UTF-16LE decoding of the N code units stored at A+24, N being the
\* 32-bit count at A+4; None where the units are not in a region or do not
\* decode
ExactText(a) ==
    LET n == LEToInt(MemBytes(a + 4, 4))
    IN  IF InOneRegion(a + 4, 4) /\ n < Far /\ InOneRegion(a + 24, 2 * n)
        THEN DecodeUtf16LE(MemBytes(a + 24, 2 * n))
        ELSE None

\* C3: wherever is_address_of_qstring_contents(A) holds and the N code
\* units stored at A+24 (N the character count at A+4) are well-formed
\* UTF-16, extract_qstring_text(A) returns exactly their decoding, whatever
\* the content, code units with a zero byte included.  (The claim's "only
\* if" half, for contents that have a decoding.)
C3_RecognisedGivesExactText ==
    /\ result.op = "extract_qstring_text"
    /\ result.is_q
    /\ ~IsNone(ExactText(result.address))
    => result.text = ExactText(result.address)

(***************************************************************************)
(* Pointers and type recognisers.                                           *)
(***************************************************************************)
RECURSIVE Reverse(_)
Reverse(b) ==
    TheOnly({IF s = <<>> THEN <<>> ELSE Reverse(Tail(s)) \o <<Head(s)>> : s \in {b}})

\* analyzers.py little_endian_to_big_endian: the bytes reversed and written
\* as hex digits; the hex string is kept as the bytes it spells, most
\* significant first
LittleEndianToBigEndian(data) == Reverse(data)

\* int(address, 16) of such a hex string
IntOfHex(hex) == LEToInt(Reverse(hex))

\* peer_offsets and user_offsets of TelegramDesktopArtifactExtractor
PeerOffsetId == 8
PeerOffsetName == 16
PeerOffsetIsBlocked == 352
UserOffsetFirstname == 384
UserOffsetLastname == 392
UserOffsetUsername == 400
UserOffsetPhone == 560
UserOffsetIsBot == 480
UserOffsetIsContact == 568
BytesAbovePhone == 35 * 16
BytesBelowPhone == 16
UserSubpatternSize == BytesAbovePhone + BytesBelowPhone

\* file_offsets, shared_contact_offsets, media_location_offsets of
\* TelegramDesktopArtifactAnalyzer
FileOffsetFilename == 80
FileOffsetFiletype == 88
SharedContactOffsetFirstname == 24
SharedContactOffsetLastname == 32
SharedContactOffsetPhoneNumber == 40
MediaLocationOffsetTitle == 48
MediaLocationOffsetDescription == 56

UserQstringOffsets ==
    <<PeerOffsetName, UserOffsetFirstname, UserOffsetLastname,
      UserOffsetUsername, UserOffsetPhone>>

\* the loop shared by is_raw_user and is_documentdata_address: every offset
\* must be readable as 8 bytes whose value is the address of QString contents
RECURSIVE PointersAtAreQstrings(_, _, _)
PointersAtAreQstrings(address, offsets, k) ==
    IF k > Len(offsets) THEN TRUE
    ELSE \E qstring_contents_address \in
                 {ExtractSurroundings(address + offsets[k], 0, 8)} :
             IF IsNone(qstring_contents_address) THEN FALSE
             ELSE IF ~IsAddressOfQstringContents(
                         IntOfHex(LittleEndianToBigEndian(Val(qstring_contents_address))))
             THEN FALSE
             ELSE PointersAtAreQstrings(address, offsets, k + 1)

\* extractors.py is_raw_user
IsRawUser(address) == PointersAtAreQstrings(address, UserQstringOffsets, 1)

\* analyzers.py is_documentdata_address
IsDocumentdataAddress(address) ==
    PointersAtAreQstrings(address, <<FileOffsetFilename, FileOffsetFiletype>>, 1)

\* analyzers.py is_peerdata_address
IsPeerdataAddress(address) ==
    LET raw_peerdata == ExtractSurroundings(address, 0, 24)
    IN  IF IsNone(raw_peerdata) THEN FALSE
        ELSE IsAddressOfQstringContents(
                 IntOfHex(LittleEndianToBigEndian(PySliceSeq(Val(raw_peerdata), 16, 24))))

\* the loop shared by is_media_contact and is_media_location, on a buffer
RECURSIVE PointersInAreQstrings(_, _, _)
PointersInAreQstrings(raw, offsets, k) ==
    IF k > Len(offsets) THEN TRUE
    ELSE IF ~IsAddressOfQstringContents(
                IntOfHex(LittleEndianToBigEndian(
                    PySliceSeq(raw, offsets[k], offsets[k] + 8))))
    THEN FALSE
    ELSE PointersInAreQstrings(raw, offsets, k + 1)

\* analyzers.py is_media_contact
IsMediaContact(raw_contact) ==
    PointersInAreQstrings(raw_contact,
        <<SharedContactOffsetFirstname, SharedContactOffsetLastname,
          SharedContactOffsetPhoneNumber>>, 1)

\* analyzers.py is_media_location
IsMediaLocation(raw_location) ==
    PointersInAreQstrings(raw_location,
        <<MediaLocationOffsetTitle, MediaLocationOffsetDescription>>, 1)

(***************************************************************************)
(* Type recognisers: the specification SpecRecog.                           *)
(* Init draws an object region whose end lies 568, 569 or 640 bytes after  *)
(* the object and a second region holding one QString contents block and   *)
(* one block with a wrong tag.  Every pointer field of every recogniser    *)
(* points to the good block, except at most one, which points to the bad   *)
(* block or outside every region.  The actions run each recogniser at the  *)
(* object and at addresses that bring its pointer fields to the region's   *)
(* end.                                                                     *)
(***************************************************************************)
RecogObject == 16 * 256
RecogHeap == 32 * 256
RecogBadBlock == RecogHeap + 64
RecogOutside == 64 * 256

RecogSlots ==
    {PeerOffsetName, SharedContactOffsetFirstname, SharedContactOffsetLastname,
     SharedContactOffsetPhoneNumber, MediaLocationOffsetTitle,
     MediaLocationOffsetDescription, FileOffsetFilename, FileOffsetFiletype,
     UserOffsetFirstname, UserOffsetLastname, UserOffsetUsername, UserOffsetPhone}

RECURSIVE MergeAll(_)
MergeAll(fs) ==
    IF fs = {} THEN <<>>
    ELSE LET f == CHOOSE g \in fs : TRUE IN f @@ MergeAll(fs \ {f})

InitRecog ==
    /\ \E size \in {UserOffsetPhone + 8, UserOffsetPhone + 9, 640},
          bad \in RecogSlots \cup {-1}, target \in {RecogBadBlock, RecogOutside} :
          /\ (bad = -1 => target = RecogBadBlock)
          /\ regions = <<[base |-> RecogObject, size |-> size],
                         [base |-> RecogHeap, size |-> 128]>>
          /\ mem = MergeAll(
                {PutBytes(RecogObject + off,
                          PackQ(IF off = bad THEN target ELSE RecogHeap))
                    : off \in RecogSlots}
                \cup {PutBytes(RecogHeap, QStringBlock(1, QStringTag, UnitDigit)),
                      PutBytes(RecogBadBlock,
                               QStringBlock(1, QStringTag + 1, UnitDigit))})
          /\ layout = [kind |-> "recog", bad |-> bad, target |-> target]
    /\ pc = "recog"
    /\ result = NoResult
    /\ IdleFinder
    /\ IdleExtractor
    /\ AllReadable
    /\ IdleProcess

RecogAddrs == {RecogObject + d : d \in {0, 8, 472, 480, 544}}

DoIsRawUser ==
    /\ pc = "recog"
    /\ \E a \in RecogAddrs :
          result' = [op |-> "is_raw_user", address |-> a, value |-> IsRawUser(a)]
    /\ UNCHANGED <<dump, process, layout, pc, finder, walk>>

DoIsPeerdataAddress ==
    /\ pc = "recog"
    /\ \E a \in RecogAddrs :
          result' = [op |-> "is_peerdata_address", address |-> a,
                     value |-> IsPeerdataAddress(a)]
    /\ UNCHANGED <<dump, process, layout, pc, finder, walk>>

DoIsDocumentdataAddress ==
    /\ pc = "recog"
    /\ \E a \in RecogAddrs :
          result' = [op |-> "is_documentdata_address", address |-> a,
                     value |-> IsDocumentdataAddress(a)]
    /\ UNCHANGED <<dump, process, layout, pc, finder, walk>>

\* the media recognisers get the 64 bytes analyze_message read at the media pointer
DoIsMediaContact ==
    /\ pc = "recog"
    /\ \E a \in RecogAddrs :
          LET raw_media == ExtractSurroundings(a, 0, 64)
          IN  /\ ~IsNone(raw_media)
              /\ result' = [op |-> "is_media_contact", address |-> a,
                            value |-> IsMediaContact(Val(raw_media))]
    /\ UNCHANGED <<dump, process, layout, pc, finder, walk>>

DoIsMediaLocation ==
    /\ pc = "recog"
    /\ \E a \in RecogAddrs :
          LET raw_media == ExtractSurroundings(a, 0, 64)
          IN  /\ ~IsNone(raw_media)
              /\ result' = [op |-> "is_media_location", address |-> a,
                            value |-> IsMediaLocation(Val(raw_media))]
    /\ UNCHANGED <<dump, process, layout, pc, finder, walk>>

NextRecog ==
    \/ DoIsRawUser
    \/ DoIsPeerdataAddress
    \/ DoIsDocumentdataAddress
    \/ DoIsMediaContact
    \/ DoIsMediaLocation

SpecRecog == InitRecog /\ [][NextRecog]_vars

\* the 8 bytes at f lie in a region and hold the address of QString contents
PointerFieldOk(f) ==
    InOneRegion(f, 8) /\ IsAddressOfQstringContents(LEToInt(MemBytes(f, 8)))

RecogniserOffsets(op) ==
    CASE op = "is_raw_user" ->
            {PeerOffsetName, UserOffsetFirstname, UserOffsetLastname,
             UserOffsetUsername, UserOffsetPhone}
      [] op = "is_peerdata_address" -> {PeerOffsetName}
      [] op = "is_documentdata_address" -> {FileOffsetFilename, FileOffsetFiletype}
      [] op = "is_media_contact" ->
            {SharedContactOffsetFirstname, SharedContactOffsetLastname,
             SharedContactOffsetPhoneNumber}
      [] op = "is_media_location" ->
            {MediaLocationOffsetTitle, MediaLocationOffsetDescription}

RecogniserOps ==
    {"is_raw_user", "is_peerdata_address", "is_documentdata_address",
     "is_media_contact", "is_media_location"}

\* C4: each type recogniser returns true exactly when every one of its
\* pointer fields can be read as an 8-byte little-endian pointer inside a
\* region and the pointer's target is the address of QString contents.
C4_RecogniserIffAllPointersOk ==
    result.op \in RecogniserOps =>
        (result.value <=>
            \A off \in RecogniserOffsets(result.op) :
                PointerFieldOk(result.address + off))

(***************************************************************************)
(* analyze_conversation.  A 64-bit id is kept as the eight bytes of its    *)
(* hex string, most significant first.                                      *)
(***************************************************************************)
\* a & b on two bytes
RECURSIVE BitAndByte(_, _, _)
BitAndByte(a, b, bits) ==
    IF bits = 0 THEN 0
    ELSE (a % 2) * (b % 2) + 2 * BitAndByte(a \div 2, b \div 2, bits - 1)

\* a & b on two 64-bit values
BitAnd64(a, b) == [k \in 1..8 |-> BitAndByte(a[k], b[k], 8)]

PeerIdTypeMask == <<0, 0, 0, 15, 0, 0, 0, 0>>       \* 0xF00000000
PeerIdUserShift == <<0, 0, 0, 0, 0, 0, 0, 0>>       \* 0x000000000
PeerIdChatShift == <<0, 0, 0, 1, 0, 0, 0, 0>>       \* 0x100000000
PeerIdChannelShift == <<0, 0, 0, 2, 0, 0, 0, 0>>    \* 0x200000000

\* the type chosen without the mask: peer_id compared with the shifts
ConversationTypeUnmasked(peer_id) ==
    IF peer_id = PeerIdUserShift THEN "Individual conversation"
    ELSE IF peer_id = PeerIdChatShift THEN "Group"
    ELSE IF peer_id = PeerIdChannelShift THEN "Channel"
    ELSE "Unknown"

\* analyzers.py analyze_conversation, lines 101-114
ConversationType(peer_id) ==
    IF BitAnd64(peer_id, PeerIdTypeMask) = PeerIdUserShift
    THEN "Individual conversation"
    ELSE IF BitAnd64(peer_id, PeerIdTypeMask) = PeerIdChatShift THEN "Group"
    ELSE IF BitAnd64(peer_id, PeerIdTypeMask) = PeerIdChannelShift THEN "Channel"
    ELSE "Unknown"

\* text is not None and text != '' and bytes(text, 'utf-8') != b'\x00'
IsUsableText(text) ==
    ~IsNone(text) /\ Val(text) # <<>> /\ Val(text) # <<0>>

\* analyzers.py analyze_conversation
AnalyzeConversation(raw_data) ==
    LET name_contents_address ==
            IntOfHex(LittleEndianToBigEndian(PySliceSeq(raw_data, 16, 24)))
        name_text == ExtractQstringText(name_contents_address)
        peer_id == LittleEndianToBigEndian(
                       PySliceSeq(raw_data, PeerOffsetId, PeerOffsetId + 8))
        named == IF IsUsableText(name_text)
                 THEN "name" :> Val(name_text) ELSE <<>>
    IN  named @@ ("id" :> peer_id) @@ ("type" :> ConversationType(peer_id))

(***************************************************************************)
(* Conversation typing: the specification SpecConv.                         *)
(* Init draws a PeerData whose id has any of a set of values in bits 0-7,  *)
(* 24-31, 32-39, 40-47 and 56-63 and whose name pointer targets a QString  *)
(* with a text, an empty QString or no QString; the action analyses it.    *)
(***************************************************************************)
ConvPeer == 16 * 256
ConvHeap == 32 * 256

InitConv ==
    /\ \E b0 \in {0, 7, 255}, b3 \in {0, 128},
          b4 \in {0, 1, 2, 3, 16, 17, 18, 34, 240, 255},
          b5 \in {0, 1}, b7 \in {0, 255}, name \in {"text", "empty", "none"} :
          /\ regions = <<[base |-> ConvPeer, size |-> 64],
                         [base |-> ConvHeap, size |-> 64]>>
          /\ mem = PutBytes(ConvPeer + PeerOffsetId, <<b0, 0, 0, b3, b4, b5, 0, b7>>)
                   @@ PutBytes(ConvPeer + PeerOffsetName, PackQ(ConvHeap))
                   @@ PutBytes(ConvHeap,
                        CASE name = "text" -> QStringBlock(1, QStringTag, UnitDigit)
                          [] name = "empty" -> QStringBlock(0, QStringTag, <<>>)
                          [] name = "none" -> QStringBlock(1, QStringTag + 1, UnitDigit))
          /\ layout = [kind |-> "conv", name |-> name]
    /\ pc = "conv"
    /\ result = NoResult
    /\ IdleFinder
    /\ IdleExtractor
    /\ AllReadable
    /\ IdleProcess

DoAnalyzeConversation ==
    /\ pc = "conv"
    /\ LET raw_peerdata == ExtractSurroundings(ConvPeer, 0, 24)
       IN  /\ ~IsNone(raw_peerdata)
           /\ result' = [op |-> "analyze_conversation", address |-> ConvPeer,
                         record |-> AnalyzeConversation(Val(raw_peerdata))]
    /\ UNCHANGED <<dump, process, layout, pc, finder, walk>>

NextConv == DoAnalyzeConversation

SpecConv == InitConv /\ [][NextConv]_vars

\* bits 32-35 of the id stored at the PeerData
ConvTypeNibble == Byte(ConvPeer + PeerOffsetId + 4) % 16

\* C7: the type of a conversation record is individual, group, channel or
\* unknown and is decided by bits 32-35 of the id alone: 0 individual,
\* 1 group, 2 channel, anything else unknown.
C7_TypeFromBits32To35 ==
    result.op = "analyze_conversation" =>
        /\ result.record["id"] = Reverse(MemBytes(ConvPeer + PeerOffsetId, 8))
        /\ result.record["type"] =
              CASE ConvTypeNibble = 0 -> "Individual conversation"
                [] ConvTypeNibble = 1 -> "Group"
                [] ConvTypeNibble = 2 -> "Channel"
                [] OTHER -> "Unknown"

\* C7 witness: a group id with bits set below bit 32 and above bit 35
C7_Witness ==
    /\ result.op = "analyze_conversation"
    /\ result.record["type"] = "Group"
    /\ Byte(ConvPeer + PeerOffsetId) = 255
    /\ Byte(ConvPeer + PeerOffsetId + 4) = 17
    /\ Byte(ConvPeer + PeerOffsetId + 7) = 255

(***************************************************************************)
(* factories.py: the artifact tree.  An artifact object is a record of its *)
(* attributes; an attribute that is None holds None, a list attribute that *)
(* was assigned holds Some(list).  A str is its sequence of code units, a  *)
(* date the number of seconds it stands for.                                *)
(***************************************************************************)

Has(dictionary, key) == key \in DOMAIN dictionary

\* artifacts/telegram_desktop.py TelegramDesktopUser(user_id, name)
TelegramDesktopUser(user_id, name) ==
    [user_id |-> user_id, name |-> name, is_contact |-> None,
     is_blocked |-> None, phone_number |-> None, username |-> None,
     about |-> None, is_bot |-> None]

\* TelegramDesktopMessage(text)
TelegramDesktopMessage(text) ==
    [message_id |-> None, text |-> text, date |-> None, sender |-> None,
     attachments |-> None]

TelegramDesktopIndividualConversation ==
    [conversation_id |-> None, conversation_type |-> "Individual conversation",
     name |-> None, messages |-> None, users |-> None]

TelegramDesktopGroup ==
    [conversation_id |-> None, conversation_type |-> "Group", name |-> None,
     messages |-> None, participants |-> None, admins |-> None,
     participants_count |-> None, admins_count |-> None,
     is_megagroup |-> None, is_public |-> None, creator |-> None]

TelegramDesktopChannel ==
    [conversation_id |-> None, conversation_type |-> "Channel", name |-> None,
     messages |-> None, publishers |-> None, subscribers |-> None,
     subscribers_count |-> None, publishers_count |-> None,
     is_public |-> None]

TelegramDesktopAccount ==
    [account_id |-> None, owner |-> None, users |-> None,
     conversations |-> None]

\* str.isdigit() on a text whose characters lie below U+0100: the decimal
\* digits and the superscripts two, three and one
StrIsDigit(text) ==
    /\ Len(text) > 0
    /\ \A i \in 1..Len(text) : text[i] \in (48..57) \cup {178, 179, 185}

\* is_user_repeated that compares an id that is None like any other id
IsUserRepeated_NoneIsAnId(user_list, new_user) ==
    \E i \in 1..Len(user_list) : user_list[i].user_id = new_user.user_id

\* organizers.py is_user_repeated; new_user is a user object
IsUserRepeated(user_list, new_user) ==
    /\ ~IsNone(new_user.user_id)
    /\ \E i \in 1..Len(user_list) : user_list[i].user_id = new_user.user_id

\* create_user: the user object, or None when the record has no name
CreateUser(dictionary) ==
    IF ~Has(dictionary, "name") THEN None
    ELSE
    LET strings == IF Has(dictionary, "strings") THEN dictionary["strings"]
                   ELSE <<>>
        name == dictionary["name"]
        rest == IF Len(strings) >= 2 /\ strings[1] \o <<32>> \o strings[2] = name
                THEN Tail(Tail(strings))
                ELSE IF Len(strings) >= 1 /\ strings[1] = name
                THEN Tail(strings)
                ELSE strings
    IN  Some([TelegramDesktopUser(None, Some(name)) EXCEPT
            !.is_contact = IF Has(dictionary, "is_contact")
                           THEN Some(dictionary["is_contact"]) ELSE None,
            !.user_id = IF Has(dictionary, "id")
                        THEN Some(dictionary["id"]) ELSE None,
            !.is_bot = IF Has(dictionary, "is_bot")
                       THEN Some(dictionary["is_bot"]) ELSE None,
            !.is_blocked = IF Has(dictionary, "is_blocked")
                           THEN Some(dictionary["is_blocked"]) ELSE None,
            !.username = IF Len(rest) = 2 THEN Some(rest[1])
                         ELSE IF Len(rest) = 1 /\ ~StrIsDigit(rest[1])
                         THEN Some(rest[1]) ELSE None,
            !.phone_number = IF Len(rest) = 2 THEN Some(rest[2])
                             ELSE IF Len(rest) = 1 /\ StrIsDigit(rest[1])
                             THEN Some(rest[1]) ELSE None])

\* create_message_attachment raises KeyError on a key it reads without a test
CreateMessageAttachmentRaises(dictionary) ==
    \/ ~Has(dictionary, "attachment_type")
    \/ /\ dictionary["attachment_type"] = "file"
       /\ ~(Has(dictionary, "filename") /\ Has(dictionary, "filetype"))
    \/ /\ dictionary["attachment_type"] = "shared_contact"
       /\ ~Has(dictionary, "firstname")
    \/ /\ dictionary["attachment_type"] = "geographic_location"
       /\ ~(Has(dictionary, "latitude") /\ Has(dictionary, "longitude"))

\* create_message_attachment: the attachment object, None for another type
CreateMessageAttachment(dictionary) ==
    IF dictionary["attachment_type"] = "file"
    THEN Some([attachment_id |-> None, filepath |-> None,
               filename |-> Some(dictionary["filename"]),
               filetype |-> Some(dictionary["filetype"]),
               size |-> None, url |-> None])
    ELSE IF dictionary["attachment_type"] = "shared_contact"
    THEN Some([attachment_id |-> None,
               name |-> IF Has(dictionary, "lastname")
                        THEN Some(dictionary["firstname"] \o <<32>>
                                      \o dictionary["lastname"])
                        ELSE Some(dictionary["firstname"]),
               phone_number |-> IF Has(dictionary, "phone_number")
                                THEN Some(dictionary["phone_number"])
                                ELSE None])
    ELSE IF dictionary["attachment_type"] = "geographic_location"
    THEN Some([attachment_id |-> None,
               latitude |-> Some(dictionary["latitude"]),
               longitude |-> Some(dictionary["longitude"]),
               title |-> IF Has(dictionary, "title")
                         THEN Some(dictionary["title"]) ELSE None,
               description |-> IF Has(dictionary, "description")
                               THEN Some(dictionary["description"]) ELSE None])
    ELSE None

\* create_message raises KeyError when a sender record without 'strings'
\* lacks 'id' or 'name', or when the attachment record does
CreateMessageRaises(dictionary) ==
    /\ Has(dictionary, "text")
    /\ \/ /\ Has(dictionary, "sender")
          /\ ~Has(dictionary["sender"], "strings")
          /\ ~(Has(dictionary["sender"], "id") /\ Has(dictionary["sender"], "name"))
       \/ /\ Has(dictionary, "attachment")
          /\ CreateMessageAttachmentRaises(dictionary["attachment"])

\* create_message: the message object, or None when the record has no text
CreateMessage(dictionary) ==
    IF ~Has(dictionary, "text") THEN None
    ELSE Some([TelegramDesktopMessage(Some(dictionary["text"])) EXCEPT
            !.date = IF Has(dictionary, "date")
                     THEN Some(dictionary["date"]) ELSE None,
            !.sender = IF ~Has(dictionary, "sender") THEN None
                       ELSE IF Has(dictionary["sender"], "strings")
                       THEN CreateUser(dictionary["sender"])
                       ELSE Some(TelegramDesktopUser(
                                     Some(dictionary["sender"]["id"]),
                                     Some(dictionary["sender"]["name"]))),
            !.attachments = IF Has(dictionary, "attachment")
                            THEN Some(<<CreateMessageAttachment(
                                            dictionary["attachment"])>>)
                            ELSE None])

\* the first n messages in the order list.sort(key=date) leaves them: a
\* stable sort, a message goes behind every message whose date is not later
RECURSIVE InsertByDate(_, _)
InsertByDate(sorted, message) ==
    IF sorted = <<>> THEN <<message>>
    ELSE IF Val(Head(sorted).date) <= Val(message.date)
    THEN <<Head(sorted)>> \o InsertByDate(Tail(sorted), message)
    ELSE <<message>> \o sorted

RECURSIVE SortedPrefix(_, _)
SortedPrefix(message_list, n) ==
    IF n = 0 THEN <<>>
    ELSE InsertByDate(SortedPrefix(message_list, n - 1), message_list[n])

\* the list left as it was extracted
SortByDate_Unsorted(message_list) == message_list

\* messages.sort(key=lambda x: x.date)
SortByDate(message_list) == SortedPrefix(message_list, Len(message_list))

\* comparing a date that is None raises TypeError
SortByDateRaises(message_list) ==
    /\ Len(message_list) >= 2
    /\ \E i \in 1..Len(message_list) : IsNone(message_list[i].date)

\* the message objects of the records that have a text
CreatedMessages(message_records) ==
    Flatten([i \in 1..Len(message_records) |-> CreateMessage(message_records[i])])

\* the senders of the first n messages, each id once, in message order
RECURSIVE UniqueSenders(_, _)
UniqueSenders(message_list, n) ==
    IF n = 0 THEN <<>>
    ELSE LET before == UniqueSenders(message_list, n - 1)
             sender == message_list[n].sender
         IN  IF ~IsNone(sender) /\ ~IsUserRepeated(before, Val(sender))
             THEN Append(before, Val(sender)) ELSE before

CreateConversationRaises(dictionary) ==
    /\ Has(dictionary, "type")
    /\ dictionary["type"] \in {"Individual conversation", "Group", "Channel"}
    /\ Has(dictionary, "messages")
    /\ \/ \E i \in 1..Len(dictionary["messages"]) :
              CreateMessageRaises(dictionary["messages"][i])
       \/ SortByDateRaises(CreatedMessages(dictionary["messages"]))

\* a channel is created for a record of any other type
CreateConversation_UnknownAsChannel(dictionary) ==
    IF ~Has(dictionary, "type") THEN None
    ELSE Some([TelegramDesktopChannel EXCEPT
                  !.conversation_id = IF Has(dictionary, "id")
                                      THEN Some(dictionary["id"]) ELSE None,
                  !.name = IF Has(dictionary, "name")
                           THEN Some(dictionary["name"]) ELSE None,
                  !.messages = Some(SortByDate(CreatedMessages(dictionary["messages"])))])

\* create_conversation: the conversation object, None for an unknown type
CreateConversation(dictionary) ==
    IF ~Has(dictionary, "type") THEN None
    ELSE
    LET conversation_type == dictionary["type"]
        conversation ==
            IF conversation_type = "Individual conversation"
            THEN Some(TelegramDesktopIndividualConversation)
            ELSE IF conversation_type = "Group" THEN Some(TelegramDesktopGroup)
            ELSE IF conversation_type = "Channel" THEN Some(TelegramDesktopChannel)
            ELSE None
        message_list == SortByDate(CreatedMessages(dictionary["messages"]))
        user_list == UniqueSenders(message_list, Len(message_list))
        identified ==
            [Val(conversation) EXCEPT
                !.conversation_id = IF Has(dictionary, "id")
                                    THEN Some(dictionary["id"]) ELSE None,
                !.name = IF Has(dictionary, "name")
                         THEN Some(dictionary["name"]) ELSE None]
    IN  IF IsNone(conversation) THEN None
        ELSE IF ~Has(dictionary, "messages") THEN Some(identified)
        ELSE IF conversation_type = "Individual conversation"
        THEN Some([identified EXCEPT !.messages = Some(message_list),
                                    !.users = Some(user_list)])
        ELSE IF conversation_type = "Group"
        THEN Some([identified EXCEPT !.messages = Some(message_list),
                                    !.participants = Some(user_list)])
        ELSE Some([identified EXCEPT !.messages = Some(message_list)])

\* the conversation objects of an account record
CreatedConversations(dictionary) ==
    Flatten([i \in 1..Len(dictionary["conversations"]) |->
                CreateConversation(dictionary["conversations"][i])])

\* the messages of the conversations, conversation after conversation
AllMessages(conversations) ==
    Flatten([i \in 1..Len(conversations) |-> Val(conversations[i].messages)])

\* users after the senders of the first n messages were added; a sender is
\* added unless is_user_repeated finds its id
RECURSIVE AddSenders(_, _, _)
AddSenders(user_list, message_list, n) ==
    IF n = 0 THEN user_list
    ELSE LET before == AddSenders(user_list, message_list, n - 1)
             sender == Val(message_list[n].sender)
         IN  IF ~IsUserRepeated(before, sender)
             THEN Append(before, sender) ELSE before

\* create_account raises what a conversation raises, TypeError on a
\* conversation without a message list and AttributeError on
\* message.sender.user_id of a message without sender
CreateAccountRaises(dictionary) ==
    /\ Has(dictionary, "users")
    /\ Has(dictionary, "conversations")
    /\ \/ \E i \in 1..Len(dictionary["conversations"]) :
              CreateConversationRaises(dictionary["conversations"][i])
       \/ \E i \in 1..Len(dictionary["conversations"]) :
              LET conversation == CreateConversation(dictionary["conversations"][i])
              IN  /\ ~IsNone(conversation)
                  /\ \/ IsNone(Val(conversation).messages)
                     \/ \E j \in 1..Len(Val(Val(conversation).messages)) :
                            IsNone(Val(Val(conversation).messages)[j].sender)

\* create_account: the account object, None for a record without 'users'
CreateAccount(dictionary) ==
    IF ~Has(dictionary, "users") THEN None
    ELSE
    LET user_list == Flatten([i \in 1..Len(dictionary["users"]) |->
                                 CreateUser(dictionary["users"][i])])
        owner == IF Has(dictionary, "owner") THEN CreateUser(dictionary["owner"])
                 ELSE None
        account == [TelegramDesktopAccount EXCEPT !.owner = owner]
        conversations == CreatedConversations(dictionary)
        message_list == AllMessages(conversations)
    IN  IF ~Has(dictionary, "conversations") THEN Some(account)
        ELSE Some([account EXCEPT
                 !.conversations = Some(conversations),
                 !.users = Some(AddSenders(user_list, message_list,
                                           Len(message_list)))])

(***************************************************************************)
(* organizers.py                                                           *)
(***************************************************************************)

\* no conversation is taken for one that was seen before
IsConversationRepeated_Never(conversations, conversation_data) == FALSE

\* is_conversation_repeated
IsConversationRepeated(conversations, conversation_data) ==
    /\ Has(conversation_data, "id")
    /\ \E i \in 1..Len(conversations) :
           /\ Has(conversations[i], "id")
           /\ conversations[i]["id"] = conversation_data["id"]

\* the conversation records identified among the first n message records,
\* each with an empty message list
RECURSIVE IdentifyConversations(_, _)
IdentifyConversations(message_records, n) ==
    IF n = 0 THEN <<>>
    ELSE LET before == IdentifyConversations(message_records, n - 1)
             message_data == message_records[n]
         IN  IF /\ Has(message_data, "conversation")
                /\ ~IsConversationRepeated(before, message_data["conversation"])
             THEN Append(before, message_data["conversation"]
                                     @@ ("messages" :> <<>>))
             ELSE before

\* insert_message_in_right_conversation; every conversation record carries
\* the 'id' analyze_conversation writes
InsertMessageInRightConversation(conversations, message_data) ==
    [i \in 1..Len(conversations) |->
        IF conversations[i]["id"] = message_data["conversation"]["id"]
        THEN [conversations[i] EXCEPT
                 !["messages"] = Append(conversations[i]["messages"], message_data)]
        ELSE conversations[i]]

\* the conversation records after the first n message records were placed
RECURSIVE PlaceMessages(_, _, _)
PlaceMessages(conversations, message_records, n) ==
    IF n = 0 THEN conversations
    ELSE LET before == PlaceMessages(conversations, message_records, n - 1)
             message_data == message_records[n]
         IN  IF /\ Has(message_data, "conversation")
                /\ Has(message_data["conversation"], "id")
             THEN InsertMessageInRightConversation(before, message_data)
             ELSE before

\* organize_before_creation: one account record
OrganizeBeforeCreation(user_records, message_records) ==
    LET conversations ==
            PlaceMessages(
                IdentifyConversations(message_records, Len(message_records)),
                message_records, Len(message_records))
    IN  <<[users |-> user_records, conversations |-> conversations]>>

\* find_repeated_users over the first n users: <<unique_users, repeated_users>>
RECURSIVE FindRepeatedUsersUpTo(_, _)
FindRepeatedUsersUpTo(user_list, n) ==
    IF n = 0 THEN <<<<>>, <<>>>>
    ELSE LET before == FindRepeatedUsersUpTo(user_list, n - 1)
             user == user_list[n]
         IN  IF ~IsUserRepeated(before[1], user)
             THEN <<Append(before[1], user), before[2]>>
             ELSE IF ~IsUserRepeated(before[2], user)
             THEN <<before[1], Append(before[2], user)>>
             ELSE before

FindRepeatedUsers(user_list) == FindRepeatedUsersUpTo(user_list, Len(user_list))[2]

\* the individual conversations of the accounts
IndividualConversations(accounts) ==
    LET conversations ==
            Flatten([i \in 1..Len(accounts) |-> Val(accounts[i].conversations)])
    IN  SelectSeq(conversations,
                  LAMBDA c : c.conversation_type = "Individual conversation")

\* the users of one individual conversation that are collected as non-contacts
NonContactsOf(individual_conversation) ==
    LET user_list == Val(individual_conversation.users)
    IN  IF Len(user_list) = 2 \/ Len(user_list) = 1
        THEN SelectSeq(user_list, LAMBDA u : u.is_contact = Some(FALSE))
        ELSE <<>>

\* the owner taken from the other user of the only individual conversation
OrganizeAfterCreation_Swapped(accounts) ==
    LET individual_conversations == IndividualConversations(accounts)
        user_list == Val(individual_conversations[1].users)
    IN  IF Len(individual_conversations) = 1 /\ Len(user_list) = 2
           /\ user_list[1].is_contact = Some(FALSE)
           /\ user_list[2].is_contact = Some(TRUE) /\ Len(accounts) = 1
        THEN <<[accounts[1] EXCEPT !.owner = Some(user_list[2])]>>
        ELSE accounts

\* no owner is inferred
OrganizeAfterCreation_NoOwner(accounts) == accounts

\* organize_after_creation
OrganizeAfterCreation(accounts) ==
    LET individual_conversations == IndividualConversations(accounts)
    IN  IF Len(individual_conversations) = 1
        THEN LET user_list == Val(individual_conversations[1].users)
             IN  IF Len(user_list) = 2
                 THEN IF /\ user_list[1].is_contact = Some(FALSE)
                         /\ user_list[2].is_contact = Some(TRUE)
                         /\ Len(accounts) = 1
                      THEN <<[accounts[1] EXCEPT !.owner = Some(user_list[1])]>>
                      ELSE IF /\ user_list[1].is_contact = Some(TRUE)
                              /\ user_list[2].is_contact = Some(FALSE)
                              /\ Len(accounts) = 1
                      THEN <<[accounts[1] EXCEPT !.owner = Some(user_list[2])]>>
                      ELSE accounts
                 ELSE accounts
        ELSE IF Len(individual_conversations) > 1
        THEN LET non_contacts_in_individual_conversations ==
                     Flatten([i \in 1..Len(individual_conversations) |->
                                 NonContactsOf(individual_conversations[i])])
                 account_owners ==
                     FindRepeatedUsers(non_contacts_in_individual_conversations)
             IN  IF Len(account_owners) = 1 /\ Len(accounts) = 1
                 THEN <<[accounts[1] EXCEPT !.owner = Some(account_owners[1])]>>
                 ELSE accounts
        ELSE accounts

(***************************************************************************)
(* SpecOrg: finder.py find_accounts from the analysed records on.  The     *)
(* user records have the keys analyze_user writes, the conversation        *)
(* records and the sender records of peers those analyze_conversation      *)
(* writes, the message records those analyze_message writes.               *)
(***************************************************************************)

MaxMsgs == 2

OrgId(high, low) == <<0, 0, 0, high, 0, 0, 0, low>>

\* a user record: full name, first name and phone number were read
OrgUser(name, low, is_contact) ==
    [name |-> name, strings |-> <<name, <<48 + low>>>>, id |-> OrgId(0, low),
     is_bot |-> FALSE, is_contact |-> is_contact]

OrgUserA == OrgUser(<<65>>, 1, FALSE)
OrgUserA2 == OrgUser(<<90>>, 1, FALSE)
OrgUserB == OrgUser(<<66>>, 2, TRUE)
OrgUserC == OrgUser(<<67>>, 3, TRUE)
OrgUserD == OrgUser(<<68>>, 4, FALSE)

\* a user record whose id was not read: create_user leaves user_id None
OrgUserN == [name |-> <<78>>, strings |-> <<<<78>>>>, is_bot |-> FALSE]

\* a conversation record
OrgPeer(peer_id, named) ==
    (IF named THEN "name" :> <<67>> ELSE <<>>)
        @@ ("id" :> peer_id) @@ ("type" :> ConversationType(peer_id))

OrgSender(s) ==
    CASE s = "A" -> OrgUserA
      [] s = "B" -> OrgUserB
      [] s = "C" -> OrgUserC
      [] s = "D" -> OrgUserD
      [] s = "N" -> OrgUserN
      [] s = "P" -> OrgPeer(OrgId(2, 9), TRUE)
      [] s = "Q" -> OrgPeer(OrgId(2, 9), FALSE)

OrgConversation(c) ==
    CASE c = "I1" -> OrgPeer(OrgId(0, 2), TRUE)
      [] c = "I2" -> OrgPeer(OrgId(0, 3), FALSE)
      [] c = "G" -> OrgPeer(OrgId(1, 9), TRUE)
      [] c = "Ch" -> OrgPeer(OrgId(2, 9), TRUE)
      [] c = "U" -> OrgPeer(OrgId(3, 9), TRUE)

OrgMessage(t) ==
    (IF t.text THEN "text" :> <<104, 105>> ELSE <<>>)
        @@ ("date" :> t.date)
        @@ (IF t.sender # "none" THEN "sender" :> OrgSender(t.sender) ELSE <<>>)
        @@ (IF t.conv # "none" THEN "conversation" :> OrgConversation(t.conv)
            ELSE <<>>)

OrgTemplates ==
    [sender : {"none", "A", "B"}, conv : {"none", "I1", "I2", "G"},
     date : {1, 2}, text : {TRUE}]
    \cup {[sender |-> "A", conv |-> "I1", date |-> 1, text |-> FALSE],
          [sender |-> "A", conv |-> "U", date |-> 1, text |-> TRUE],
          [sender |-> "B", conv |-> "Ch", date |-> 1, text |-> TRUE],
          [sender |-> "P", conv |-> "G", date |-> 2, text |-> TRUE],
          [sender |-> "Q", conv |-> "G", date |-> 1, text |-> TRUE]}

InitOrg ==
    /\ regions = <<>>
    /\ mem = <<>>
    /\ result = NoResult
    /\ \E user_records \in {<<>>, <<OrgUserA>>, <<OrgUserA, OrgUserA2>>},
          n \in 0..MaxMsgs :
          \E ts \in [1..n -> OrgTemplates] :
              /\ users = user_records
              /\ messages = [i \in 1..n |-> OrgMessage(ts[i])]
              /\ layout = [user_records |-> Len(user_records), templates |-> ts]
    /\ organized_accounts = <<>>
    /\ account_objects = <<>>
    /\ IdleExtractor
    /\ AllReadable
    /\ IdleProcess
    /\ pc = "analyzed"

\* finder.py: organize_before_creation(accounts, users, conversations,
\* messages, message_attachments)
DoOrganizeBeforeCreation ==
    /\ pc = "analyzed"
    /\ organized_accounts' = OrganizeBeforeCreation(users, messages)
    /\ pc' = "organized"
    /\ UNCHANGED <<dump, process, layout, result, walk, users, messages, account_objects>>

\* finder.py: the loop over organized_accounts; an exception of
\* create_account ends find_accounts without a tree
DoCreateAccounts ==
    /\ pc = "organized"
    /\ IF \E i \in 1..Len(organized_accounts) :
              CreateAccountRaises(organized_accounts[i])
       THEN /\ pc' = "raised"
            /\ UNCHANGED account_objects
       ELSE /\ account_objects' =
                   Flatten([i \in 1..Len(organized_accounts) |->
                               CreateAccount(organized_accounts[i])])
            /\ pc' = "created"
    /\ UNCHANGED <<dump, process, layout, result, walk, users, messages, organized_accounts>>

\* finder.py: organize_after_creation(account_objects)
DoOrganizeAfterCreation ==
    /\ pc = "created"
    /\ account_objects' = OrganizeAfterCreation(account_objects)
    /\ pc' = "returned"
    /\ UNCHANGED <<dump, process, layout, result, walk, users, messages, organized_accounts>>

NextOrg ==
    \/ DoOrganizeBeforeCreation
    \/ DoCreateAccounts
    \/ DoOrganizeAfterCreation

SpecOrg == InitOrg /\ [][NextOrg]_vars

\* the message records that carry a conversation with an id
HasConversationId(message_data) ==
    Has(message_data, "conversation") /\ Has(message_data["conversation"], "id")

\* the conversation records organize_before_creation returned
OrganizedConversations == organized_accounts[1].conversations

\* a conversation record without its message list
WithoutMessages(conversation) ==
    [key \in DOMAIN conversation \ {"messages"} |-> conversation[key]]

RECURSIVE SumOfLengths(_)
SumOfLengths(lists) ==
    IF lists = <<>> THEN 0 ELSE Len(Head(lists)) + SumOfLengths(Tail(lists))

\* C25: organize_before_creation creates exactly one conversation for each
\* distinct conversation id of the message records, that of the first
\* record with the id, and the message list of a conversation holds the
\* records with its id, each once and in no other conversation: as many
\* messages are attached as there are records that carry a conversation.
C25_OneConversationForEachId ==
    (pc \in {"organized", "created", "raised", "returned"}
        /\ Len(organized_accounts) = 1) =>
        LET with_id == SelectSeq(messages, HasConversationId)
            ids == {with_id[k]["conversation"]["id"] : k \in 1..Len(with_id)}
            conversations == OrganizedConversations
        IN  /\ Len(conversations) = Cardinality(ids)
            /\ {conversations[i]["id"] : i \in 1..Len(conversations)} = ids
            /\ \A i \in 1..Len(conversations) :
                   LET same_id(message_data) ==
                           message_data["conversation"]["id"] = conversations[i]["id"]
                       records == SelectSeq(with_id, same_id)
                   IN  /\ WithoutMessages(conversations[i])
                              = records[1]["conversation"]
                       /\ conversations[i]["messages"] = records
            /\ SumOfLengths([i \in 1..Len(conversations) |->
                                conversations[i]["messages"]])
                   = Len(SelectSeq(messages, LAMBDA message_data :
                                       Has(message_data, "conversation")))

\* C25 witness: two different records with the same conversation id give
\* one conversation with the two messages
C25_Witness ==
    /\ pc = "organized"
    /\ Len(messages) = 2
    /\ messages[1] # messages[2]
    /\ HasConversationId(messages[1]) /\ HasConversationId(messages[2])
    /\ messages[1]["conversation"]["id"] = messages[2]["conversation"]["id"]
    /\ Len(OrganizedConversations) = 1
    /\ OrganizedConversations[1]["messages"] = messages

\* the conversations of the account objects
TreeConversations ==
    Flatten([i \in 1..Len(account_objects) |->
                Val(account_objects[i].conversations)])

\* C8: after organisation the messages of every conversation of the tree
\* are in non-decreasing date order, whatever the order of the records.
C8_MessagesInDateOrder ==
    pc = "returned" =>
        \A c \in 1..Len(TreeConversations) :
            LET message_list == Val(TreeConversations[c].messages)
            IN  \A i \in 1..(Len(message_list) - 1) :
                    Val(message_list[i].date) <= Val(message_list[i + 1].date)

\* C8 witness: two records of one conversation extracted latest first
C8_Witness ==
    /\ pc = "returned"
    /\ Len(messages) = 2
    /\ messages[1]["date"] > messages[2]["date"]
    /\ \E c \in 1..Len(TreeConversations) :
           Len(Val(TreeConversations[c].messages)) = 2

PairwiseDistinct(s) ==
    \A i, j \in 1..Len(s) : i # j => s[i] # s[j]

\* C9: in the final tree the users of an account have pairwise distinct
\* ids, none of them None, and its conversations have pairwise distinct ids.
C9_DistinctUserAndConversationIds ==
    pc = "returned" =>
        \A a \in 1..Len(account_objects) :
            LET user_list == Val(account_objects[a].users)
                conversations == Val(account_objects[a].conversations)
            IN  /\ \A i \in 1..Len(user_list) : ~IsNone(user_list[i].user_id)
                /\ PairwiseDistinct([i \in 1..Len(user_list) |->
                                        user_list[i].user_id])
                /\ PairwiseDistinct([i \in 1..Len(conversations) |->
                                        conversations[i].conversation_id])

\* C10: an owner that is set is a user of an individual conversation of the
\* account and has is_contact == False.
C10_OwnerIsNonContactOfIndividualConversation ==
    pc = "returned" =>
        \A a \in 1..Len(account_objects) :
            LET owner == account_objects[a].owner
                conversations == Val(account_objects[a].conversations)
            IN  ~IsNone(owner) =>
                    /\ Val(owner).is_contact = Some(FALSE)
                    /\ \E c \in 1..Len(conversations) :
                           /\ conversations[c].conversation_type
                                  = "Individual conversation"
                           /\ \E u \in 1..Len(Val(conversations[c].users)) :
                                  Val(conversations[c].users)[u] = Val(owner)

\* C10 witness: the owner was taken from the only individual conversation
C10_Witness ==
    /\ pc = "returned"
    /\ Len(account_objects) = 1
    /\ ~IsNone(account_objects[1].owner)
    /\ Len(IndividualConversations(account_objects)) = 1

\* message record i belongs to a conversation of a type the factory creates
InKnownConversation(i) ==
    /\ Has(messages[i], "conversation")
    /\ messages[i]["conversation"]["type"]
           \in {"Individual conversation", "Group", "Channel"}

\* a message of the tree made from message record i: the fields of the
\* record, None for the fields the record does not have
IsMessageOfRecord(message, i) ==
    /\ message.text = (IF Has(messages[i], "text")
                       THEN Some(messages[i]["text"]) ELSE None)
    /\ message.date = Some(messages[i]["date"])
    /\ Has(messages[i], "sender") <=> ~IsNone(message.sender)
    /\ Has(messages[i], "attachment") <=> ~IsNone(message.attachments)

\* C15: the tree is built without an exception, and every message record of
\* an individual conversation, a group or a channel is a message of that
\* conversation in the tree, with text, sender and attachment None when the
\* record does not have them.
C15_EveryMessageStaysInTree ==
    /\ pc # "raised"
    /\ pc = "returned" =>
           \A i \in 1..Len(messages) :
               InKnownConversation(i) =>
                   \E c \in 1..Len(TreeConversations) :
                       /\ TreeConversations[c].conversation_id
                              = Some(messages[i]["conversation"]["id"])
                       /\ \E m \in 1..Len(Val(TreeConversations[c].messages)) :
                              IsMessageOfRecord(
                                  Val(TreeConversations[c].messages)[m], i)

\* C15 for records that have a text and a sender with a name
C15_WithTextAndSender ==
    (\A i \in 1..Len(messages) :
        InKnownConversation(i) =>
            /\ Has(messages[i], "text")
            /\ Has(messages[i], "sender")
            /\ Has(messages[i]["sender"], "name"))
    => C15_EveryMessageStaysInTree

\* the message objects of the tree, conversation after conversation
TreeMessages == AllMessages(TreeConversations)

\* the users of the accounts of the tree
TreeUsers ==
    Flatten([i \in 1..Len(account_objects) |-> Val(account_objects[i].users)])

\* C30: a message record whose conversation was not resolved, or whose
\* conversation record has type Unknown, is nowhere in the final tree: no
\* conversation object has the id of an Unknown record, the tree holds only
\* the messages of the records of individual conversations, groups and
\* channels, and a user of an account is a user record or the sender of a
\* message of the tree.
C30_OrphanMessagesStayOutOfTree ==
    pc = "returned" =>
        /\ \A c \in 1..Len(TreeConversations) :
               \E i \in 1..Len(messages) :
                   /\ InKnownConversation(i)
                   /\ TreeConversations[c].conversation_id
                          = Some(messages[i]["conversation"]["id"])
        /\ \A c \in 1..Len(TreeConversations), i \in 1..Len(messages) :
               (Has(messages[i], "conversation") /\ ~InKnownConversation(i)) =>
                   TreeConversations[c].conversation_id
                       # Some(messages[i]["conversation"]["id"])
        /\ Len(TreeMessages)
               = Cardinality({i \in 1..Len(messages) :
                                 InKnownConversation(i) /\ Has(messages[i], "text")})
        /\ \A m \in 1..Len(TreeMessages) :
               \E i \in 1..Len(messages) :
                   InKnownConversation(i) /\ IsMessageOfRecord(TreeMessages[m], i)
        /\ \A u \in 1..Len(TreeUsers) :
               \/ \E k \in 1..Len(users) : CreateUser(users[k]) = Some(TreeUsers[u])
               \/ \E m \in 1..Len(TreeMessages) :
                      TreeMessages[m].sender = Some(TreeUsers[u])

\* C30 witness: of two records with different senders the first belongs to
\* a conversation of type Unknown, the second to a conversation the
\* factory creates; the tree has one conversation with one message and
\* the sender of the second record as its only user
C30_Witness ==
    /\ pc = "returned"
    /\ users = <<>>
    /\ Len(messages) = 2
    /\ ~InKnownConversation(1) /\ InKnownConversation(2)
    /\ Has(messages[1], "conversation")
    /\ Has(messages[1], "sender") /\ Has(messages[2], "sender")
    /\ Has(messages[2]["sender"], "strings")
    /\ messages[1]["sender"] # messages[2]["sender"]
    /\ Len(TreeConversations) = 1
    /\ Len(TreeMessages) = 1
    /\ TreeUsers = <<Val(CreateUser(messages[2]["sender"]))>>

(***************************************************************************)
(* SpecTree: find_accounts from the analysed records on, over the message  *)
(* records of two individual conversations and a group: up to MaxTreeMsgs  *)
(* records, sent by two non-contacts, two contacts or a user whose id was  *)
(* not read.                                                               *)
(***************************************************************************)

MaxTreeMsgs == 4

TreeTemplates ==
    {[sender |-> sc[1], conv |-> sc[2], date |-> 1, text |-> TRUE] :
        sc \in {<<"A", "I1">>, <<"A", "I2">>, <<"B", "I1">>, <<"C", "I2">>,
                <<"D", "I1">>, <<"D", "I2">>, <<"N", "I1">>, <<"N", "G">>,
                <<"A", "G">>}}

InitTree ==
    /\ regions = <<>>
    /\ mem = <<>>
    /\ result = NoResult
    /\ \E n \in 0..MaxTreeMsgs :
          \E ts \in [1..n -> TreeTemplates] :
              /\ users = <<>>
              /\ messages = [i \in 1..n |-> OrgMessage(ts[i])]
              /\ layout = [user_records |-> 0, templates |-> ts]
    /\ organized_accounts = <<>>
    /\ account_objects = <<>>
    /\ IdleExtractor
    /\ AllReadable
    /\ IdleProcess
    /\ pc = "analyzed"

SpecTree == InitTree /\ [][NextOrg]_vars

\* the ids of the users of a conversation
UserIdsOf(conversation) ==
    {Val(conversation.users)[u].user_id :
        u \in 1..Len(Val(conversation.users))}

\* the non-contact users that are users of two or more individual
\* conversations of the accounts
RepeatedNonContacts(accounts) ==
    LET individual_conversations == IndividualConversations(accounts)
        listed == {<<c, u>> \in (1..Len(individual_conversations)) \X (1..MaxTreeMsgs + 1) :
                      u <= Len(Val(individual_conversations[c].users))}
        UserAt(cu) == Val(individual_conversations[cu[1]].users)[cu[2]]
    IN  {UserAt(cu).user_id : cu \in
            {x \in listed :
                /\ UserAt(x).is_contact = Some(FALSE)
                /\ ~IsNone(UserAt(x).user_id)
                /\ \E y \in listed :
                       /\ y[1] # x[1]
                       /\ UserAt(y).user_id = UserAt(x).user_id}}

\* C11: with more than one individual conversation the owner of the account
\* is the only non-contact user that is in two or more of them, and no owner
\* is set when there is no such user or more than one.
C11_OwnerIsUniqueRepeatedNonContact ==
    (pc = "returned" /\ Len(account_objects) = 1
        /\ Len(IndividualConversations(account_objects)) > 1) =>
        LET owner == account_objects[1].owner
            repeated == RepeatedNonContacts(account_objects)
        IN  IF Cardinality(repeated) = 1
            THEN /\ ~IsNone(owner)
                 /\ Val(owner).user_id \in repeated
            ELSE IsNone(owner)

\* C11 restricted to individual conversations of at most two users
C11_WithAtMostTwoUsers ==
    (\A c \in 1..Len(IndividualConversations(account_objects)) :
        Len(Val(IndividualConversations(account_objects)[c].users)) <= 2)
    => C11_OwnerIsUniqueRepeatedNonContact

\* C11: the conversations {A, B} and {A, C} of the non-contact A
C11_Example ==
    /\ pc = "returned"
    /\ Len(IndividualConversations(account_objects)) = 2
    /\ UserIdsOf(IndividualConversations(account_objects)[1])
           = {Some(OrgId(0, 1)), Some(OrgId(0, 2))}
    /\ UserIdsOf(IndividualConversations(account_objects)[2])
           = {Some(OrgId(0, 1)), Some(OrgId(0, 3))}
    /\ ~IsNone(account_objects[1].owner)
    /\ Val(account_objects[1].owner).user_id = Some(OrgId(0, 1))


\* the individual conversations of two users
TwoUserConversations(accounts) ==
    SelectSeq(IndividualConversations(accounts),
              LAMBDA c : Len(Val(c.users)) = 2)

\* the non-contact of a conversation of a non-contact and a contact
NonContactOfPair(conversation) ==
    LET user_list == Val(conversation.users)
    IN  IF /\ user_list[1].is_contact = Some(FALSE)
           /\ user_list[2].is_contact = Some(TRUE)
        THEN Some(user_list[1])
        ELSE IF /\ user_list[1].is_contact = Some(TRUE)
                /\ user_list[2].is_contact = Some(FALSE)
        THEN Some(user_list[2])
        ELSE None

\* C12 as stated: when exactly one of the individual conversations has two
\* users, a contact and a non-contact, the owner is the non-contact.
C12_OwnerOfOnlyTwoUserConversation ==
    (pc = "returned" /\ Len(account_objects) = 1
        /\ Len(TwoUserConversations(account_objects)) = 1
        /\ ~IsNone(NonContactOfPair(TwoUserConversations(account_objects)[1])))
    => account_objects[1].owner
           = NonContactOfPair(TwoUserConversations(account_objects)[1])

\* C12: when the account has exactly one individual conversation and that
\* conversation has two users, a contact and a non-contact, the owner is the
\* non-contact.
C12_OwnerOfOnlyIndividualConversation ==
    (pc = "returned" /\ Len(account_objects) = 1
        /\ Len(IndividualConversations(account_objects)) = 1
        /\ Len(TwoUserConversations(account_objects)) = 1
        /\ ~IsNone(NonContactOfPair(TwoUserConversations(account_objects)[1])))
    => account_objects[1].owner
           = NonContactOfPair(TwoUserConversations(account_objects)[1])

\* C12 witness: the only individual conversation lists the contact first and
\* the owner is its second user
C12_Witness ==
    /\ pc = "returned"
    /\ Len(account_objects) = 1
    /\ Len(IndividualConversations(account_objects)) = 1
    /\ Len(TwoUserConversations(account_objects)) = 1
    /\ Val(TwoUserConversations(account_objects)[1].users)[1].is_contact
           = Some(TRUE)
    /\ account_objects[1].owner
           = Some(Val(TwoUserConversations(account_objects)[1].users)[2])

\* the users of an individual conversation, the participants of a group
ListedUsers(conversation) ==
    IF conversation.conversation_type = "Individual conversation"
    THEN Val(conversation.users)
    ELSE Val(conversation.participants)

\* the senders of the messages of a conversation of the tree
SendersOf(conversation) ==
    [i \in 1..Len(Val(conversation.messages)) |->
        Val(conversation.messages)[i].sender]

\* C13: the users of an individual conversation and the participants of a
\* group are the senders of its messages, unique by id: no two of them share
\* an id that is not None, every id of a sender is listed, and every sender
\* whose id is None is listed once per message.
C13_ListedUsersUniqueById ==
    pc = "returned" =>
        \A c \in 1..Len(TreeConversations) :
            LET conversation == TreeConversations[c]
                listed == ListedUsers(conversation)
                senders == SendersOf(conversation)
                NullIds(s) == {i \in 1..Len(s) : IsNone(Val(s[i]).user_id)}
            IN  conversation.conversation_type
                    \in {"Individual conversation", "Group"} =>
                    /\ \A i, j \in 1..Len(listed) :
                           (i # j /\ ~IsNone(listed[i].user_id))
                               => listed[i].user_id # listed[j].user_id
                    /\ \A i \in 1..Len(senders) :
                           \E j \in 1..Len(listed) :
                               listed[j].user_id = Val(senders[i]).user_id
                    /\ Cardinality({i \in 1..Len(listed) :
                                       IsNone(listed[i].user_id)})
                           = Cardinality(NullIds(senders))

\* C13 witness: a group with two messages of one sender with an id and two
\* messages of senders without id, which lists three participants
C13_Witness ==
    /\ pc = "returned"
    /\ \E c \in 1..Len(TreeConversations) :
           /\ TreeConversations[c].conversation_type = "Group"
           /\ Len(Val(TreeConversations[c].messages)) = 4
           /\ Len(ListedUsers(TreeConversations[c])) = 3
           /\ Cardinality({i \in 1..3 :
                  IsNone(ListedUsers(TreeConversations[c])[i].user_id)}) = 2

(***************************************************************************)
(* analyzers.py analyze_user, analyze_message, analyze_message_attachment.  *)
(* A record is a function on the keys written; an exception is reported in *)
(* the field raised of the result, "" when none was raised.                *)
(***************************************************************************)

\* user_offsets of TelegramDesktopArtifactExtractor, as the dictionary
UserOffsets ==
    ("firstname" :> UserOffsetFirstname) @@ ("lastname" :> UserOffsetLastname)
        @@ ("username" :> UserOffsetUsername) @@ ("is_bot" :> UserOffsetIsBot)
        @@ ("phone" :> UserOffsetPhone) @@ ("is_contact" :> UserOffsetIsContact)
        @@ ("bytes_above_phone" :> BytesAbovePhone)
        @@ ("bytes_below_phone" :> BytesBelowPhone)

\* the pointer stored at raw_data[offset:offset + 8]
PointerIn(raw_data, offset) ==
    IntOfHex(LittleEndianToBigEndian(PySliceSeq(raw_data, offset, offset + 8)))

\* the text of the QString whose contents address is stored at
\* raw_data[offset:offset + 8], filtered: None, '' and '\x00' are not kept
QstringField(raw_data, offset, key) ==
    LET text == ExtractQstringText(PointerIn(raw_data, offset))
    IN  IF IsUsableText(text) THEN key :> Val(text) ELSE <<>>

\* dictionary[key] = value
Put(dictionary, key, value) == (key :> value) @@ dictionary

\* analyze_user: user_strings after the loop over qstring_offsets
RECURSIVE UserStrings(_, _, _)
UserStrings(raw_data, qstring_offsets, k) ==
    IF k > Len(qstring_offsets) THEN <<>>
    ELSE LET address == PointerIn(raw_data, qstring_offsets[k])
             text == IF IsAddressOfQstringContents(address)
                     THEN ExtractQstringText(address) ELSE None
         IN  (IF IsUsableText(text) THEN <<Val(text)>> ELSE <<>>)
                 \o UserStrings(raw_data, qstring_offsets, k + 1)

\* analyze_user: the exception that ends the call, "" when it returns
AnalyzeUserRaised(raw_data) ==
    IF ~Has(UserOffsets, "name") THEN "KeyError"
    ELSE IF UserStrings(raw_data,
                <<UserOffsets["name"], UserOffsets["firstname"],
                  UserOffsets["lastname"], UserOffsets["username"],
                  UserOffsets["phone"]>>, 1) = <<>>
    THEN "IndexError"
    ELSE IF ~Has(UserOffsets, "id") \/ ~Has(UserOffsets, "is_blocked")
    THEN "KeyError"
    ELSE ""

\* analyze_user: the record returned when no exception ends the call
AnalyzeUser(raw_data) ==
    LET user_strings ==
            UserStrings(raw_data,
                <<UserOffsets["name"], UserOffsets["firstname"],
                  UserOffsets["lastname"], UserOffsets["username"],
                  UserOffsets["phone"]>>, 1)
        is_contact_data ==
            PySliceSeq(raw_data, UserOffsets["is_contact"],
                       UserOffsets["is_contact"] + 1)
        is_bot_data ==
            PySliceSeq(raw_data, UserOffsets["is_bot"], UserOffsets["is_bot"] + 8)
        is_blocked_data ==
            PySliceSeq(raw_data, UserOffsets["is_blocked"],
                       UserOffsets["is_blocked"] + 1)
    IN  (IF is_blocked_data = <<1>> THEN "is_blocked" :> TRUE
         ELSE IF is_blocked_data = <<2>> THEN "is_blocked" :> FALSE ELSE <<>>)
        @@ ("is_bot" :> (is_bot_data # <<0, 0, 0, 0, 0, 0, 0, 0>>))
        @@ ("id" :> LittleEndianToBigEndian(
                        PySliceSeq(raw_data, UserOffsets["id"],
                                   UserOffsets["id"] + 8)))
        @@ (IF is_contact_data = <<1>> THEN "is_contact" :> TRUE
            ELSE IF is_contact_data = <<2>> THEN "is_contact" :> FALSE ELSE <<>>)
        @@ ("name" :> Head(user_strings)) @@ ("strings" :> Tail(user_strings))

\* media_file_offsets['document'] and documentdata_subpattern_size
MediaFileOffsetDocument == 16
DocumentdataSubpatternSize == 6 * 16

\* media_location_offsets['latitude'] and ['longitude']
MediaLocationOffsetLatitude == 16
MediaLocationOffsetLongitude == 24

\* struct.unpack('!d', bytes.fromhex(little_endian_to_big_endian(b)))[0]: the
\* double is kept as its eight IEEE 754 bytes, most significant first
UnpackDouble(b) == LittleEndianToBigEndian(b)

\* analyze_message_attachment: the keys written by the file interpretation
AttachmentAsFile(raw_data, message_attachment_data) ==
    LET documentdata_address == PointerIn(raw_data, MediaFileOffsetDocument)
        raw_documentdata ==
            ExtractSurroundings(documentdata_address, 0, DocumentdataSubpatternSize)
    IN  IF IsDocumentdataAddress(documentdata_address) /\ ~IsNone(raw_documentdata)
        THEN LET with_fields ==
                     QstringField(Val(raw_documentdata), FileOffsetFiletype, "filetype")
                     @@ QstringField(Val(raw_documentdata), FileOffsetFilename,
                                     "filename")
                     @@ message_attachment_data
             IN  IF Has(with_fields, "filename") /\ Has(with_fields, "filetype")
                 THEN Put(with_fields, "attachment_type", "file")
                 ELSE with_fields
        ELSE message_attachment_data

\* analyze_message_attachment: the keys written by the shared contact
\* interpretation
AttachmentAsSharedContact(raw_data, message_attachment_data) ==
    IF IsMediaContact(raw_data)
    THEN LET with_fields ==
                 QstringField(raw_data, SharedContactOffsetPhoneNumber, "phone_number")
                 @@ QstringField(raw_data, SharedContactOffsetLastname, "lastname")
                 @@ QstringField(raw_data, SharedContactOffsetFirstname, "firstname")
                 @@ message_attachment_data
         IN  IF Has(with_fields, "firstname")
             THEN Put(with_fields, "attachment_type", "shared_contact")
             ELSE with_fields
    ELSE message_attachment_data

\* analyze_message_attachment: the keys written by the geographic location
\* interpretation
AttachmentAsGeographicLocation(raw_data, message_attachment_data) ==
    IF IsMediaLocation(raw_data)
    THEN LET with_fields ==
                 QstringField(raw_data, MediaLocationOffsetDescription, "description")
                 @@ QstringField(raw_data, MediaLocationOffsetTitle, "title")
                 @@ ("longitude" :> UnpackDouble(
                        PySliceSeq(raw_data, MediaLocationOffsetLongitude,
                                   MediaLocationOffsetLongitude + 8)))
                 @@ ("latitude" :> UnpackDouble(
                        PySliceSeq(raw_data, MediaLocationOffsetLatitude,
                                   MediaLocationOffsetLatitude + 8)))
                 @@ message_attachment_data
         IN  IF Has(with_fields, "latitude") /\ Has(with_fields, "longitude")
             THEN Put(with_fields, "attachment_type", "geographic_location")
             ELSE with_fields
    ELSE message_attachment_data

\* the interpretations stop at the first that sets attachment_type
AnalyzeMessageAttachment_FirstWins(raw_data) ==
    LET as_file == AttachmentAsFile(raw_data, <<>>)
        as_contact == AttachmentAsSharedContact(raw_data, as_file)
    IN  IF Has(as_file, "attachment_type") THEN as_file
        ELSE IF Has(as_contact, "attachment_type") THEN as_contact
        ELSE AttachmentAsGeographicLocation(raw_data, as_contact)

\* the geographic location interpretation is never tried
AnalyzeMessageAttachment_NoLocation(raw_data) ==
    AttachmentAsSharedContact(raw_data, AttachmentAsFile(raw_data, <<>>))

\* analyzers.py analyze_message_attachment: the three interpretations are
\* tried one after the other on the same dictionary
AnalyzeMessageAttachment(raw_data) ==
    TheOnly({AttachmentAsGeographicLocation(raw_data, as_contact) :
                as_contact \in {AttachmentAsSharedContact(raw_data, as_file) :
                                   as_file \in {AttachmentAsFile(raw_data, <<>>)}}})

\* message_offsets and history_offsets of analyze_message
MessageOffsetHistory == 8
MessageOffsetFrom == 16
MessageOffsetText == 48
MessageOffsetMedia == 120
MessageOffsetDate == 128
MessageOffsetTimetext == 160
HistoryOffsetPeer == 192

\* text is returned as it is
StripUnderscore_Keep(text) == text

\* text[:-1] if text.endswith('_')
StripUnderscore(text) ==
    IF text # <<>> /\ text[Len(text)] = 95
    THEN SubSeq(text, 1, Len(text) - 1) ELSE text

\* int(hex, 16) of four bytes, most significant first, where the first byte
\* is the sign byte of a 32-bit integer
EpochOfHex_Signed(hex) ==
    [high |-> hex[1] * 256 + hex[2] - (IF hex[1] >= 128 THEN 65536 ELSE 0),
     low |-> hex[3] * 256 + hex[4]]

\* int(hex, 16) of four bytes, most significant first: the integer
\* high * 65536 + low, kept as its two 16-bit halves
EpochOfHex(hex) ==
    [high |-> hex[1] * 256 + hex[2], low |-> hex[3] * 256 + hex[4]]

\* the days and the seconds of the day of an epoch: divmod(epoch, 86400),
\* with 86400 = 675 * 128 and 65536 = 512 * 128
EpochDays(epoch) == (epoch.high * 512 + (epoch.low \div 128)) \div 675
EpochSecondsOfDay(epoch) ==
    ((epoch.high * 512 + (epoch.low \div 128)) % 675) * 128 + (epoch.low % 128)

\* datetime: _DAYS_IN_MONTH and _DAYS_BEFORE_MONTH
DaysInMonth(month) == <<31, 28, 31, 30, 31, 30, 31, 31, 30, 31, 30, 31>>[month]
DaysBeforeMonth(month) ==
    <<0, 31, 59, 90, 120, 151, 181, 212, 243, 273, 304, 334>>[month]

\* datetime: _ord2ymd(n + 1), n the days since 0001-01-01
Ord2Ymd(n) ==
    LET n400 == n \div 146097
        r400 == n % 146097
        n100 == r400 \div 36524
        r100 == r400 % 36524
        n4 == r100 \div 1461
        r4 == r100 % 1461
        n1 == r4 \div 365
        r1 == r4 % 365
        year == n400 * 400 + 1 + n100 * 100 + n4 * 4 + n1
        leapyear == n1 = 3 /\ (n4 # 24 \/ n100 = 3)
        month == (r1 + 50) \div 32
        preceding == DaysBeforeMonth(month)
                         + (IF month > 2 /\ leapyear THEN 1 ELSE 0)
    IN  IF n1 = 4 \/ n100 = 4
        THEN [year |-> year - 1, month |-> 12, day |-> 31]
        ELSE IF preceding > r1
        THEN [year |-> year, month |-> month - 1,
              day |-> r1 - (preceding - DaysInMonth(month - 1)
                               - (IF month - 1 = 2 /\ leapyear THEN 1 ELSE 0)) + 1]
        ELSE [year |-> year, month |-> month, day |-> r1 - preceding + 1]

\* the ordinal of 1970-01-01, minus one
EpochOrdinal == 719162

\* datetime.fromtimestamp(epoch, timezone.utc)
FromTimestampUtc(epoch) ==
    LET ymd == Ord2Ymd(EpochOrdinal + EpochDays(epoch))
        seconds == EpochSecondsOfDay(epoch)
    IN  [year |-> ymd.year, month |-> ymd.month, day |-> ymd.day,
         hour |-> seconds \div 3600, minute |-> (seconds % 3600) \div 60,
         second |-> seconds % 60]

\* analyze_message: the sender; raised is the exception of analyze_user
MessageSender(raw_data) ==
    LET from_pointer == PointerIn(raw_data, MessageOffsetFrom)
        raw_from_userdata == ExtractSurroundings(from_pointer, 0, UserSubpatternSize)
        raw_from_peerdata == ExtractSurroundings(from_pointer, 0, 24)
    IN  IF IsRawUser(from_pointer)
        THEN IF IsNone(raw_from_userdata) THEN [raised |-> "", record |-> <<>>]
             ELSE IF AnalyzeUserRaised(Val(raw_from_userdata)) # ""
             THEN [raised |-> AnalyzeUserRaised(Val(raw_from_userdata)),
                   record |-> <<>>]
             ELSE [raised |-> "",
                   record |-> "sender" :> AnalyzeUser(Val(raw_from_userdata))]
        ELSE IF IsPeerdataAddress(from_pointer) /\ ~IsNone(raw_from_peerdata)
        THEN [raised |-> "",
              record |-> "sender" :> AnalyzeConversation(Val(raw_from_peerdata))]
        ELSE [raised |-> "", record |-> <<>>]

\* analyze_message: the conversation
MessageConversation(raw_data) ==
    LET history_raw_data ==
            ExtractSurroundings(PointerIn(raw_data, MessageOffsetHistory), 0,
                                HistoryOffsetPeer + 8)
    IN  IF IsNone(history_raw_data) THEN <<>>
        ELSE LET peerdata_address ==
                     PointerIn(Val(history_raw_data), HistoryOffsetPeer)
                 raw_peerdata == ExtractSurroundings(peerdata_address, 0, 24)
             IN  IF IsPeerdataAddress(peerdata_address) /\ ~IsNone(raw_peerdata)
                 THEN "conversation" :> AnalyzeConversation(Val(raw_peerdata))
                 ELSE <<>>

\* analyze_message: the attachment
MessageAttachment(raw_data) ==
    LET media_pointer ==
            PySliceSeq(raw_data, MessageOffsetMedia, MessageOffsetMedia + 8)
        raw_media == ExtractSurroundings(PointerIn(raw_data, MessageOffsetMedia),
                                         0, 64)
    IN  IF media_pointer # <<0, 0, 0, 0, 0, 0, 0, 0>> /\ ~IsNone(raw_media)
        THEN TheOnly({IF Has(message_attachment_data, "attachment_type")
                      THEN "attachment" :> message_attachment_data ELSE <<>> :
                         message_attachment_data \in
                             {AnalyzeMessageAttachment(raw_message_attachment) :
                                 raw_message_attachment \in {Val(raw_media)}}})
        ELSE <<>>

\* analyze_message: the text.  extract_qstring_text finds the QString that
\* is_address_of_qstring_contents has found, so its result is not None.
MessageText(raw_data) ==
    LET text_contents_address == PointerIn(raw_data, MessageOffsetText)
    IN  IF IsAddressOfQstringContents(text_contents_address)
        THEN "text" :> StripUnderscore(Val(ExtractQstringText(text_contents_address)))
        ELSE <<>>

\* analyze_message: the date
MessageDate(raw_data) ==
    "date" :> FromTimestampUtc(EpochOfHex(LittleEndianToBigEndian(
                  PySliceSeq(raw_data, MessageOffsetDate, MessageOffsetDate + 4))))

\* analyzers.py analyze_message
AnalyzeMessage(raw_data) ==
    TheOnly({IF sender.raised # "" THEN [raised |-> sender.raised, record |-> <<>>]
             ELSE [raised |-> "",
                   record |-> MessageAttachment(raw_data)
                                  @@ MessageConversation(raw_data)
                                  @@ sender.record @@ MessageDate(raw_data)
                                  @@ MessageText(raw_data)] :
                sender \in {MessageSender(raw_data)}})

(***************************************************************************)
(* SpecAtt: analyze_message_attachment on the 64 bytes of a Media object.   *)
(* Init draws what is stored at the offsets the three interpretations      *)
(* read: a null pointer, a pointer to a DocumentData or a double at 16, a  *)
(* pointer or a double at 24, pointers at 32, 40, 48 and 56.  A pointer    *)
(* targets a QString with a text, an empty QString or no QString.          *)
(***************************************************************************)
AttMedia == 16 * 256
AttDocument == 32 * 256
AttHeap == 48 * 256
AttGoodText == AttHeap
AttEmptyText == AttHeap + 64
AttNoText == AttHeap + 128

\* 40.0 and -3.0 as doubles, least significant byte first
Double40 == <<0, 0, 0, 0, 0, 0, 68, 64>>
DoubleMinus3 == <<0, 0, 0, 0, 0, 0, 8, 192>>

AttSlot(kind) ==
    CASE kind = "good" -> PackQ(AttGoodText)
      [] kind = "empty" -> PackQ(AttEmptyText)
      [] kind = "bad" -> PackQ(AttNoText)
      [] kind = "zero" -> PackQ(0)
      [] kind = "lat" -> Double40
      [] kind = "lon" -> DoubleMinus3
      [] OTHER -> PackQ(AttDocument)

AttSlot16Kinds ==
    {"zero", "lat", "doc_good_good", "doc_good_empty", "doc_empty_good",
     "doc_bad_good", "doc_good_bad"}

\* the pointers of the DocumentData: filename and filetype
AttDocumentMem(kind) ==
    CASE kind = "doc_good_good" ->
            PutBytes(AttDocument + FileOffsetFilename, AttSlot("good"))
            @@ PutBytes(AttDocument + FileOffsetFiletype, AttSlot("good"))
      [] kind = "doc_good_empty" ->
            PutBytes(AttDocument + FileOffsetFilename, AttSlot("good"))
            @@ PutBytes(AttDocument + FileOffsetFiletype, AttSlot("empty"))
      [] kind = "doc_empty_good" ->
            PutBytes(AttDocument + FileOffsetFilename, AttSlot("empty"))
            @@ PutBytes(AttDocument + FileOffsetFiletype, AttSlot("good"))
      [] kind = "doc_bad_good" ->
            PutBytes(AttDocument + FileOffsetFilename, AttSlot("bad"))
            @@ PutBytes(AttDocument + FileOffsetFiletype, AttSlot("good"))
      [] kind = "doc_good_bad" ->
            PutBytes(AttDocument + FileOffsetFilename, AttSlot("good"))
            @@ PutBytes(AttDocument + FileOffsetFiletype, AttSlot("bad"))
      [] OTHER -> <<>>

InitAtt ==
    /\ \E s16 \in AttSlot16Kinds, s24 \in {"good", "empty", "bad", "lon"},
          s32 \in {"good", "bad"}, s40 \in {"good", "bad"},
          s48 \in {"good", "empty", "bad"}, s56 \in {"good", "bad"} :
          /\ regions = <<[base |-> AttMedia, size |-> 128],
                         [base |-> AttDocument, size |-> 128],
                         [base |-> AttHeap, size |-> 256]>>
          /\ mem = PutBytes(AttMedia + 16, AttSlot(s16))
                   @@ PutBytes(AttMedia + 24, AttSlot(s24))
                   @@ PutBytes(AttMedia + 32, AttSlot(s32))
                   @@ PutBytes(AttMedia + 40, AttSlot(s40))
                   @@ PutBytes(AttMedia + 48, AttSlot(s48))
                   @@ PutBytes(AttMedia + 56, AttSlot(s56))
                   @@ AttDocumentMem(s16)
                   @@ PutBytes(AttGoodText, QStringBlock(1, QStringTag, <<97, 0>>))
                   @@ PutBytes(AttEmptyText, QStringBlock(0, QStringTag, <<>>))
          /\ layout = [kind |-> "att", slots |-> <<s16, s24, s32, s40, s48, s56>>]
    /\ pc = "att"
    /\ result = NoResult
    /\ IdleFinder
    /\ IdleExtractor
    /\ AllReadable
    /\ IdleProcess

DoAnalyzeMessageAttachment ==
    /\ pc = "att"
    /\ LET raw_media == ExtractSurroundings(AttMedia, 0, 64)
       IN  /\ ~IsNone(raw_media)
           /\ result' = [op |-> "analyze_message_attachment",
                         record |-> AnalyzeMessageAttachment(Val(raw_media))]
    /\ UNCHANGED <<dump, process, layout, pc, finder, walk>>

NextAtt == DoAnalyzeMessageAttachment

SpecAtt == InitAtt /\ [][NextAtt]_vars

\* the text of the QString whose contents address is stored at address is
\* neither empty nor a NUL
QstringAtIsUsable(address) ==
    LET pointer == IntOfHex(LittleEndianToBigEndian(MemBytes(address, 8)))
    IN  /\ IsAddressOfQstringContents(pointer)
        /\ \E n \in 1..MaxTextLen :
               /\ LEToInt(MemBytes(pointer + 4, 4)) = n
               /\ MemBytes(pointer + QStringHeaderSize, 2 * n) # <<0, 0>>

\* the three interpretations validate with their required fields
ValidatesAsFile ==
    LET document == IntOfHex(LittleEndianToBigEndian(
                        MemBytes(AttMedia + MediaFileOffsetDocument, 8)))
    IN  /\ InOneRegion(document, DocumentdataSubpatternSize + 1)
        /\ QstringAtIsUsable(document + FileOffsetFilename)
        /\ QstringAtIsUsable(document + FileOffsetFiletype)

ValidatesAsSharedContact ==
    /\ QstringAtIsUsable(AttMedia + SharedContactOffsetFirstname)
    /\ \A offset \in {SharedContactOffsetLastname, SharedContactOffsetPhoneNumber} :
           IsAddressOfQstringContents(
               IntOfHex(LittleEndianToBigEndian(MemBytes(AttMedia + offset, 8))))

ValidatesAsGeographicLocation ==
    \A offset \in {MediaLocationOffsetTitle, MediaLocationOffsetDescription} :
        IsAddressOfQstringContents(
            IntOfHex(LittleEndianToBigEndian(MemBytes(AttMedia + offset, 8))))

\* C19: analyze_message_attachment sets attachment_type only to an
\* interpretation that validates with its required fields (file: filename
\* and filetype, shared_contact: firstname, geographic_location: latitude and
\* longitude) and sets it whenever one validates; a Media that validates
\* only as a geographic location gives attachment_type geographic_location
\* with the two doubles stored at offsets 16 and 24.
C19_AttachmentTypeOfValidInterpretation ==
    result.op = "analyze_message_attachment" =>
        LET record == result.record
        IN  /\ Has(record, "attachment_type")
                <=> (ValidatesAsFile \/ ValidatesAsSharedContact
                        \/ ValidatesAsGeographicLocation)
            /\ Has(record, "attachment_type") =>
                   CASE record["attachment_type"] = "file" ->
                            /\ ValidatesAsFile
                            /\ Has(record, "filename") /\ Has(record, "filetype")
                     [] record["attachment_type"] = "shared_contact" ->
                            /\ ValidatesAsSharedContact
                            /\ Has(record, "firstname")
                     [] record["attachment_type"] = "geographic_location" ->
                            /\ ValidatesAsGeographicLocation
                            /\ Has(record, "latitude") /\ Has(record, "longitude")
                     [] OTHER -> FALSE
            /\ (ValidatesAsGeographicLocation /\ ~ValidatesAsFile
                    /\ ~ValidatesAsSharedContact) =>
                   /\ Has(record, "attachment_type")
                   /\ record["attachment_type"] = "geographic_location"
                   /\ record["latitude"]
                          = Reverse(MemBytes(AttMedia + MediaLocationOffsetLatitude, 8))
                   /\ record["longitude"]
                          = Reverse(MemBytes(AttMedia + MediaLocationOffsetLongitude, 8))

\* C19 witness: a Media that is no file and no shared contact and holds the
\* doubles 40.0 and -3.0 gives a geographic location with 40.0 and -3.0
C19_Witness ==
    /\ result.op = "analyze_message_attachment"
    /\ ~ValidatesAsFile /\ ~ValidatesAsSharedContact
    /\ MemBytes(AttMedia + MediaLocationOffsetLatitude, 8) = Double40
    /\ MemBytes(AttMedia + MediaLocationOffsetLongitude, 8) = DoubleMinus3
    /\ Has(result.record, "attachment_type")
    /\ result.record["attachment_type"] = "geographic_location"
    /\ result.record["latitude"] = <<64, 68, 0, 0, 0, 0, 0, 0>>
    /\ result.record["longitude"] = <<192, 8, 0, 0, 0, 0, 0, 0>>

\* analyze_message_attachment when several interpretations validate: the
\* last of them in the order file, shared contact, geographic location gives
\* attachment_type, and the fields of all of them are in the record
AttachmentTypeOfLastValid ==
    result.op = "analyze_message_attachment" =>
        /\ ValidatesAsGeographicLocation
               => /\ Has(result.record, "attachment_type")
                  /\ result.record["attachment_type"] = "geographic_location"
        /\ (ValidatesAsSharedContact /\ ~ValidatesAsGeographicLocation)
               => /\ Has(result.record, "attachment_type")
                  /\ result.record["attachment_type"] = "shared_contact"
        /\ (ValidatesAsFile /\ ValidatesAsSharedContact)
               => Has(result.record, "filename") /\ Has(result.record, "firstname")

\* the interpretations that validate, in the order they are tried
ValidInterpretations ==
    (IF ValidatesAsFile THEN <<"file">> ELSE <<>>)
        \o (IF ValidatesAsSharedContact THEN <<"shared_contact">> ELSE <<>>)
        \o (IF ValidatesAsGeographicLocation THEN <<"geographic_location">> ELSE <<>>)

\* the keys an interpretation that validates always writes
RequiredFields(attachment_type) ==
    CASE attachment_type = "file" -> {"filename", "filetype"}
      [] attachment_type = "shared_contact" -> {"firstname"}
      [] attachment_type = "geographic_location" -> {"latitude", "longitude"}

\* C29: when a 64-byte media window validates under more than one
\* interpretation, the record analyze_message_attachment returns carries
\* the fields of every interpretation that validated, and its
\* attachment_type is that of the last of them in the order file,
\* shared_contact, geographic_location.
C29_LastValidInterpretationOverrides ==
    (result.op = "analyze_message_attachment" /\ Len(ValidInterpretations) >= 2) =>
        /\ Has(result.record, "attachment_type")
        /\ result.record["attachment_type"]
               = ValidInterpretations[Len(ValidInterpretations)]
        /\ \A i \in 1..Len(ValidInterpretations) :
               \A key \in RequiredFields(ValidInterpretations[i]) :
                   Has(result.record, key)
        /\ ValidatesAsGeographicLocation =>
               /\ result.record["latitude"]
                      = Reverse(MemBytes(AttMedia + MediaLocationOffsetLatitude, 8))
               /\ result.record["longitude"]
                      = Reverse(MemBytes(AttMedia + MediaLocationOffsetLongitude, 8))

\* C29 witness: a Media whose first pointer targets a DocumentData with a
\* file name and a file type and whose other pointers all target texts is a
\* file, a shared contact and a geographic location at once; the record has
\* the fields of the three and the type of the last
C29_Witness ==
    /\ result.op = "analyze_message_attachment"
    /\ ValidInterpretations = <<"file", "shared_contact", "geographic_location">>
    /\ result.record["attachment_type"] = "geographic_location"
    /\ result.record["filename"] = <<97>>
    /\ result.record["filetype"] = <<97>>
    /\ result.record["firstname"] = <<97>>
    /\ result.record["latitude"] = Reverse(PackQ(AttDocument))

(***************************************************************************)
(* SpecMsg: analyze_message on the window extract_messages cuts around a   *)
(* message, and analyze_user on the UserData of its sender.  Init draws    *)
(* the text of the message, the four bytes of its date, its sender (none,  *)
(* a UserData whose strings are texts or empty, a PeerData), its           *)
(* conversation and its Media.                                             *)
(***************************************************************************)
MsgObject == 16 * 256
MsgHeap == 32 * 256
MsgUser == 48 * 256
MsgPeer == 64 * 256
MsgHistory == 80 * 256
MsgConversation == 96 * 256
MsgMedia == 112 * 256
MsgTextBlock == MsgHeap
MsgNameBlock == MsgHeap + 64
MsgEmptyBlock == MsgHeap + 128

\* the bytes of a text of UTF-16 code units
RECURSIVE UnitsToBytes(_)
UnitsToBytes(units) ==
    IF units = <<>> THEN <<>>
    ELSE <<Head(units) % 256, Head(units) \div 256>> \o UnitsToBytes(Tail(units))

\* '', '_', '__', 'hi', 'hi_', '_h', NUL, 'h' U+4E00
MsgTexts ==
    {<<>>, <<95>>, <<95, 95>>, <<104, 105>>, <<104, 105, 95>>, <<95, 104>>,
     <<0>>, <<104, 19968>>}

\* 0, 1700000000, 2^31 - 1, 2^31, 2^32 - 1, the last second of 1972-02-29,
\* 2000-02-29, the last second of 2000, 2100-03-01; least significant
\* byte first
MsgDates ==
    {<<0, 0, 0, 0>>, <<0, 241, 83, 101>>, <<255, 255, 255, 127>>,
     <<0, 0, 0, 128>>, <<255, 255, 255, 255>>, <<255, 128, 17, 4>>,
     <<0, 12, 187, 56>>, <<127, 200, 79, 58>>, <<128, 31, 212, 244>>}

MsgSenderMem(sender) ==
    CASE sender = "user" ->
            PutBytes(MsgObject + MessageOffsetFrom, PackQ(MsgUser))
            @@ MergeAll({PutBytes(MsgUser + UserQstringOffsets[k], PackQ(MsgNameBlock)) :
                            k \in 1..Len(UserQstringOffsets)})
            @@ PutBytes(MsgUser + UserOffsetIsContact, <<1>>)
            @@ PutBytes(MsgUser + PeerOffsetIsBlocked, <<2>>)
      [] sender = "user_blocked" ->
            PutBytes(MsgObject + MessageOffsetFrom, PackQ(MsgUser))
            @@ MergeAll({PutBytes(MsgUser + UserQstringOffsets[k], PackQ(MsgNameBlock)) :
                            k \in 1..Len(UserQstringOffsets)})
            @@ PutBytes(MsgUser + UserOffsetIsContact, <<2>>)
            @@ PutBytes(MsgUser + PeerOffsetIsBlocked, <<1>>)
            @@ PutBytes(MsgUser + UserOffsetIsBot, <<3>>)
      [] sender = "user_empty" ->
            PutBytes(MsgObject + MessageOffsetFrom, PackQ(MsgUser))
            @@ MergeAll({PutBytes(MsgUser + UserQstringOffsets[k], PackQ(MsgEmptyBlock)) :
                            k \in 1..Len(UserQstringOffsets)})
      [] sender = "peer" ->
            PutBytes(MsgObject + MessageOffsetFrom, PackQ(MsgPeer))
            @@ PutBytes(MsgPeer + PeerOffsetId, <<9, 0, 0, 0, 2, 0, 0, 0>>)
            @@ PutBytes(MsgPeer + PeerOffsetName, PackQ(MsgNameBlock))
      [] OTHER -> <<>>

MsgConversationMem(conversation) ==
    IF conversation = "none" THEN <<>>
    ELSE PutBytes(MsgObject + MessageOffsetHistory, PackQ(MsgHistory))
         @@ PutBytes(MsgHistory + HistoryOffsetPeer, PackQ(MsgConversation))
         @@ PutBytes(MsgConversation + PeerOffsetId, <<2, 0, 0, 0, 0, 0, 0, 0>>)
         @@ PutBytes(MsgConversation + PeerOffsetName,
                     PackQ(IF conversation = "named" THEN MsgNameBlock
                           ELSE MsgEmptyBlock))

MsgMediaMem(media) ==
    CASE media = "location" ->
            PutBytes(MsgObject + MessageOffsetMedia, PackQ(MsgMedia))
            @@ PutBytes(MsgMedia + MediaLocationOffsetLatitude, Double40)
            @@ PutBytes(MsgMedia + MediaLocationOffsetLongitude, DoubleMinus3)
            @@ PutBytes(MsgMedia + MediaLocationOffsetTitle, PackQ(MsgNameBlock))
            @@ PutBytes(MsgMedia + MediaLocationOffsetDescription,
                        PackQ(MsgEmptyBlock))
      [] media = "untyped" ->
            PutBytes(MsgObject + MessageOffsetMedia, PackQ(MsgMedia))
      [] media = "dangling" ->
            PutBytes(MsgObject + MessageOffsetMedia, PackQ(MsgMedia + 256))
      [] OTHER -> <<>>

\* the senders that are a UserData: is_contact 0x01 and is_blocked 0x02, the
\* two the other way round, neither byte set
MsgUserSenders == {"user", "user_blocked", "user_empty"}

\* the sender, the conversation and the Media of the message
MsgSurroundings ==
    {<<"none", "none", "null">>, <<"none", "unnamed", "location">>,
     <<"user", "named", "location">>, <<"user_empty", "unnamed", "untyped">>,
     <<"user_blocked", "none", "null">>,
     <<"peer", "named", "dangling">>, <<"peer", "none", "null">>}

InitMsg ==
    /\ \E text \in {Some(t) : t \in MsgTexts} \cup {None}, date \in MsgDates,
          around \in MsgSurroundings :
          LET sender == around[1]
              conversation == around[2]
              media == around[3]
          IN
          /\ regions = <<[base |-> MsgObject, size |-> 256],
                         [base |-> MsgHeap, size |-> 256],
                         [base |-> MsgUser, size |-> 640],
                         [base |-> MsgPeer, size |-> 64],
                         [base |-> MsgHistory, size |-> 256],
                         [base |-> MsgConversation, size |-> 64],
                         [base |-> MsgMedia, size |-> 128]>>
          /\ mem = (IF IsNone(text) THEN <<>>
                    ELSE PutBytes(MsgObject + MessageOffsetText, PackQ(MsgTextBlock))
                         @@ PutBytes(MsgTextBlock,
                                QStringBlock(Len(Val(text)), QStringTag,
                                             UnitsToBytes(Val(text)))))
                   @@ PutBytes(MsgObject + MessageOffsetDate, date)
                   @@ MsgSenderMem(sender)
                   @@ MsgConversationMem(conversation)
                   @@ MsgMediaMem(media)
                   @@ PutBytes(MsgNameBlock, QStringBlock(1, QStringTag, <<67, 0>>))
                   @@ PutBytes(MsgEmptyBlock, QStringBlock(0, QStringTag, <<>>))
          /\ layout = [kind |-> "msg", text |-> text, sender |-> sender,
                       conversation |-> conversation, media |-> media]
    /\ pc = "msg"
    /\ result = NoResult
    /\ IdleFinder
    /\ IdleExtractor
    /\ AllReadable
    /\ IdleProcess

\* find_accounts: analyze_message(raw_message) for the window of
\* extract_messages, 160 bytes above and 16 bytes below the _timeText pointer
DoAnalyzeMessage ==
    /\ pc = "msg"
    /\ \E contents \in {ExtractSurroundings(MsgObject + MessageOffsetTimetext,
                                            10 * 16, 16)} :
           /\ ~IsNone(contents)
           /\ \E raw_message \in {Val(contents)} :
                  \E analyzed \in {AnalyzeMessage(raw_message)} :
                      result' = [op |-> "analyze_message",
                                 raised |-> analyzed.raised,
                                 record |-> analyzed.record]
    /\ UNCHANGED <<dump, process, layout, pc, finder, walk>>

\* find_accounts: analyze_user(raw_user) for the window of a UserData
DoAnalyzeUser ==
    /\ pc = "msg"
    /\ layout.sender \in MsgUserSenders
    /\ LET raw_user == ExtractSurroundings(MsgUser, 0, UserSubpatternSize)
       IN  /\ ~IsNone(raw_user)
           /\ result' = [op |-> "analyze_user",
                         raised |-> AnalyzeUserRaised(Val(raw_user)),
                         record |-> IF AnalyzeUserRaised(Val(raw_user)) = ""
                                    THEN AnalyzeUser(Val(raw_user)) ELSE <<>>]
    /\ UNCHANGED <<dump, process, layout, pc, finder, walk>>

NextMsg == DoAnalyzeMessage \/ DoAnalyzeUser

SpecMsg == InitMsg /\ [][NextMsg]_vars

\* C14: analyze_user and analyze_message return a record for every window,
\* they never raise.
C14_AnalysersNeverRaise ==
    result.op \in {"analyze_user", "analyze_message"} => result.raised = ""

\* C14 for the messages whose sender is not a UserData
C14_WithoutUserSender ==
    layout.sender \notin MsgUserSenders => C14_AnalysersNeverRaise

\* a string that is neither empty nor the single NUL character
IsFilteredString(string) == string # <<>> /\ string # <<0>>

\* C16: every string of a record of analyze_message (text, name of the
\* sender, name of the conversation, strings of the attachment) is neither
\* empty nor the single NUL character.
C16_StringsNeitherEmptyNorNul ==
    (result.op = "analyze_message" /\ result.raised = "") =>
        LET record == result.record
        IN  /\ Has(record, "text") => IsFilteredString(record["text"])
            /\ \A key \in {"sender", "conversation"} :
                   (Has(record, key) /\ Has(record[key], "name"))
                       => IsFilteredString(record[key]["name"])
            /\ Has(record, "attachment") =>
                   \A key \in {"filename", "filetype", "firstname", "lastname",
                               "phone_number", "title", "description"} :
                       Has(record["attachment"], key)
                           => IsFilteredString(record["attachment"][key])

\* C16 without the text of the message
C16_OtherThanText ==
    (result.op = "analyze_message" /\ Has(result.record, "text")
        /\ ~IsFilteredString(result.record["text"]))
    \/ C16_StringsNeitherEmptyNorNul

\* the text stored in the QString of the message, None when the message
\* has no text QString
StoredText == layout.text

\* C17: the text of the record of analyze_message is the text stored in the
\* QString at offset 48 without its trailing '_', and the stored text itself
\* when it does not end with '_'.
C17_TextWithoutTrailingUnderscore ==
    (result.op = "analyze_message" /\ result.raised = ""
        /\ ~IsNone(StoredText)) =>
        LET stored == Val(StoredText)
        IN  /\ Has(result.record, "text")
            /\ result.record["text"] =
                   IF stored # <<>> /\ stored[Len(stored)] = 95
                   THEN SubSeq(stored, 1, Len(stored) - 1)
                   ELSE stored

\* C17 for the texts that extract_qstring_text decodes in full
C17_ForTextsDecodedInFull ==
    (~IsNone(StoredText) /\ ExtractQstringText(MsgTextBlock) = StoredText)
        => C17_TextWithoutTrailingUnderscore

\* C17: the stored text 'hi_' gives the text 'hi'
C17_Example ==
    /\ result.op = "analyze_message"
    /\ result.raised = ""
    /\ StoredText = Some(<<104, 105, 95>>)
    /\ result.record["text"] = <<104, 105>>

\* the pointer stored at offset 16 of the message
StoredFromPointer == LEToInt(MemBytes(MsgObject + MessageOffsetFrom, 8))

\* C26: analyze_message takes the sender from the pointer at offset 16, a
\* user before a peer: for a pointer that satisfies is_raw_user the sender
\* is the user record of the 576 bytes at that address, else for one that
\* satisfies is_peerdata_address it is the conversation record of the 24
\* bytes at that address, else the record has no sender.
C26_SenderFromPointerUserFirst ==
    result.op = "analyze_message" =>
        IF IsRawUser(StoredFromPointer)
        THEN /\ result.raised = ""
             /\ Has(result.record, "sender")
             /\ result.record["sender"]
                    = AnalyzeUser(MemBytes(StoredFromPointer, UserSubpatternSize))
        ELSE IF IsPeerdataAddress(StoredFromPointer)
        THEN /\ result.raised = ""
             /\ Has(result.record, "sender")
             /\ result.record["sender"]
                    = AnalyzeConversation(MemBytes(StoredFromPointer, 24))
        ELSE /\ result.raised = ""
             /\ ~Has(result.record, "sender")

\* C26 for the pointers that do not satisfy is_raw_user
C26_WhenSenderIsNoUser ==
    (result.op = "analyze_message" /\ IsRawUser(StoredFromPointer))
    \/ C26_SenderFromPointerUserFirst

\* C26: a message whose pointer at offset 16 is the address of a PeerData
\* has the conversation record of that address as its sender
C26_PeerExample ==
    /\ result.op = "analyze_message"
    /\ layout.sender = "peer"
    /\ StoredFromPointer = MsgPeer
    /\ result.raised = ""
    /\ result.record["sender"] = AnalyzeConversation(MemBytes(MsgPeer, 24))

\* the convention of the flag bytes: 0x01 is true, 0x02 is false, any other
\* byte leaves the key out of the record
FlagFollowsByte(record, key, byte) ==
    IF byte = 1 THEN Has(record, key) /\ record[key] = TRUE
    ELSE IF byte = 2 THEN Has(record, key) /\ record[key] = FALSE
    ELSE ~Has(record, key)

\* C27: analyze_user returns a record whose is_contact follows the byte at
\* the is_contact offset and whose is_blocked follows the byte at the
\* is_blocked offset: 0x01 gives true, 0x02 gives false, any other byte
\* leaves the field unset.
C27_FlagsFollowTheirBytes ==
    result.op = "analyze_user" =>
        /\ result.raised = ""
        /\ FlagFollowsByte(result.record, "is_contact",
                           Byte(MsgUser + UserOffsetIsContact))
        /\ FlagFollowsByte(result.record, "is_blocked",
                           Byte(MsgUser + PeerOffsetIsBlocked))

\* the days from 1970-01-01 to a date of the proleptic Gregorian calendar
CivilToDays(year, month, day) ==
    LET y == IF month <= 2 THEN year - 1 ELSE year
        era == y \div 400
        yoe == y - era * 400
        doy == ((153 * (IF month > 2 THEN month - 3 ELSE month + 9) + 2) \div 5)
                   + day - 1
        doe == yoe * 365 + (yoe \div 4) - (yoe \div 100) + doy
    IN  era * 146097 + doe - 719468

\* the four bytes at offset 128 of the message read as an unsigned integer,
\* divided by 128, and the remainder
StoredEpochDiv128 ==
    Byte(MsgObject + MessageOffsetDate + 3) * 131072
        + Byte(MsgObject + MessageOffsetDate + 2) * 512
        + Byte(MsgObject + MessageOffsetDate + 1) * 2
        + (Byte(MsgObject + MessageOffsetDate) \div 128)
StoredEpochMod128 == Byte(MsgObject + MessageOffsetDate) % 128

\* C18: the date of the record of analyze_message is the UTC date and time
\* that lies the unsigned 32-bit little-endian number of seconds stored at
\* offset 128 after 1970-01-01T00:00:00Z, for numbers of 2^31 and more too.
C18_DateIsUnsignedEpochInUtc ==
    (result.op = "analyze_message" /\ result.raised = "") =>
        LET date == result.record["date"]
            seconds == date.hour * 3600 + date.minute * 60 + date.second
        IN  /\ date.month \in 1..12
            /\ date.day \in 1..31
            /\ date.hour \in 0..23 /\ date.minute \in 0..59 /\ date.second \in 0..59
            /\ CivilToDays(date.year, date.month, date.day) * 675 + (seconds \div 128)
                   = StoredEpochDiv128
            /\ seconds % 128 = StoredEpochMod128

\* C18 witness: 1700000000 gives 2023-11-14T22:13:20Z
C18_Witness ==
    /\ result.op = "analyze_message"
    /\ result.raised = ""
    /\ MemBytes(MsgObject + MessageOffsetDate, 4) = <<0, 241, 83, 101>>
    /\ result.record["date"] = [year |-> 2023, month |-> 11, day |-> 14,
                                hour |-> 22, minute |-> 13, second |-> 20]

\* C18: 2^32 - 1 gives 2106-02-07T06:28:15Z
C18_LargestEpoch ==
    /\ result.op = "analyze_message"
    /\ result.raised = ""
    /\ MemBytes(MsgObject + MessageOffsetDate, 4) = <<255, 255, 255, 255>>
    /\ result.record["date"] = [year |-> 2106, month |-> 2, day |-> 7,
                                hour |-> 6, minute |-> 28, second |-> 15]

(***************************************************************************)
(* extractors.py extract_users.  A pattern is searched in every region     *)
(* file on its own, in the order of the listing; finditer reports the      *)
(* leftmost matches that do not overlap.                                    *)
(***************************************************************************)

\* distance_between_users
DistanceBetweenUsers == 592

\* \d of a bytes pattern
IsDigitByte(b) == 48 <= b /\ b <= 57

\* the number of (\d\x00) pairs that follow each other from offset p of
\* region r, counted up to 17
RECURSIVE DigitPairs(_, _, _)
DigitPairs(r, p, k) ==
    IF /\ k <= 16
       /\ p + 1 < r.size
       /\ IsDigitByte(RegionByte(r, p))
       /\ RegionByte(r, p + 1) = 0
    THEN DigitPairs(r, p + 2, k + 1)
    ELSE k

\* the offset where a match of (\d\x00){7,16}[\x00]{2} from offset p ends,
\* -1 if there is none: a digit is not zero, so only the whole run of pairs
\* can be followed by the two zero bytes
PhoneMatchEnd(r, p) ==
    IF ~IsDigitByte(RegionByte(r, p)) THEN -1
    ELSE LET n == DigitPairs(r, p, 0)
         IN  IF /\ 7 <= n /\ n <= 16
                /\ p + 2 * n + 1 < r.size
                /\ RegionByte(r, p + 2 * n) = 0
                /\ RegionByte(r, p + 2 * n + 1) = 0
             THEN p + 2 * n + 2
             ELSE -1

\* the offset where a match of the escaped literal from offset p ends
LiteralMatchEnd(r, p, literal) ==
    IF /\ p + Len(literal) <= r.size
       /\ \A j \in 1..Len(literal) : RegionByte(r, p + j - 1) = literal[j]
    THEN p + Len(literal)
    ELSE -1

\* regex.finditer: the starts of the matches, leftmost first, each search
\* resumed where the last match ended
RECURSIVE FindIterFrom(_, _)
FindIterFrom(candidates, from) ==
    TheOnly({IF ahead = {} THEN <<>>
             ELSE TheOnly({<<first.start>> \o FindIterFrom(ahead, first.end) :
                              first \in {CHOOSE c \in ahead :
                                             \A d \in ahead : c.start <= d.start}}) :
                ahead \in {{c \in candidates : c.start >= from}}})

\* the matches a pattern has in the file of region r, by the offset where
\* each starts and the offset where it ends
PhoneCandidates(r) ==
    {[start |-> p, end |-> PhoneMatchEnd(r, p)] :
         p \in {q \in 0..(r.size - 1) : PhoneMatchEnd(r, q) # -1}}

LiteralCandidates(r, literal) ==
    {[start |-> p, end |-> LiteralMatchEnd(r, p, literal)] :
         p \in {q \in 0..(r.size - 1) : LiteralMatchEnd(r, q, literal) # -1}}

\* find_matches_and_their_addresses: the addresses of the matches, file
\* after file; candidates[i] are the matches in the i-th listed file
FindMatchesAndTheirAddresses(candidates) ==
    Flatten([i \in 1..Len(regions) |->
        TheOnly({[k \in 1..Len(starts) |-> regions[i].base + starts[k]] :
                    starts \in {FindIterFrom(candidates[i], 0)}})])

\* the contents address taken for a match of the phone pattern itself
QstringContentsAddressOfPhone_NoHeader(phone_number_address) ==
    phone_number_address

\* int(phone_number[1], 16) - 24
QstringContentsAddressOfPhone(phone_number_address) ==
    phone_number_address - QStringHeaderSize

\* the addresses where the address of QString contents is stored and the
\* window around them is that of a user, in the order they are found
UsersOfPhoneNumber(phone_number_address) ==
    LET qstring_contents_address ==
            QstringContentsAddressOfPhone(phone_number_address)
    IN  IF ~IsAddressOfQstringContents(qstring_contents_address) THEN <<>>
        ELSE TheOnly({SelectSeq(
                          FindMatchesAndTheirAddresses(
                              [i \in 1..Len(regions) |->
                                  LiteralCandidates(regions[i], literal)]),
                          LAMBDA match :
                              /\ ~IsNone(ExtractSurroundings(match, BytesAbovePhone,
                                                             BytesBelowPhone))
                              /\ IsRawUser(match - BytesAbovePhone)) :
                         literal \in {PackQ(qstring_contents_address)}})

\* the pointer matches accepted in the first part of extract_users
PhoneAnchoredMatches ==
    TheOnly({Flatten([i \in 1..Len(phone_numbers) |->
                         UsersOfPhoneNumber(phone_numbers[i])]) :
                phone_numbers \in
                    {FindMatchesAndTheirAddresses(
                         [i \in 1..Len(regions) |-> PhoneCandidates(regions[i])])}})

\* list.sort() of addresses
RECURSIVE SortAddresses(_)
SortAddresses(addresses) ==
    IF addresses = <<>> THEN <<>>
    ELSE LET least == CHOOSE i \in 1..Len(addresses) :
                          \A j \in 1..Len(addresses) :
                              addresses[i] <= addresses[j]
         IN  <<addresses[least]>>
                 \o SortAddresses([k \in 1..(Len(addresses) - 1) |->
                                      IF k < least THEN addresses[k]
                                      ELSE addresses[k + 1]])

InList(x, list) == \E i \in 1..Len(list) : list[i] = x

\* the condition of the while loops without its two membership tests
WhileNextIsNewUser_Unseen ==
    IsRawUser(next_user_address)

\* the condition of the while loops
WhileNextIsNewUser ==
    /\ ~InList(next_user_address, user_addresses)
    /\ ~InList(next_user_address, new_user_addresses)
    /\ IsRawUser(next_user_address)

\* first part of extract_users, up to user_addresses.sort() and the entry
\* of the first for loop
FindUsersByPhoneNumber ==
    /\ pc = "extract_users"
    /\ \E matches \in {PhoneAnchoredMatches} :
       LET sorted == SortAddresses([i \in 1..Len(matches) |->
                                       matches[i] - BytesAbovePhone])
       IN  /\ raw_users' = [i \in 1..Len(matches) |->
                               Val(ExtractSurroundings(matches[i], BytesAbovePhone,
                                                       BytesBelowPhone))]
           /\ user_addresses' = sorted
           /\ next_user_address' = IF sorted = <<>> THEN 0
                                   ELSE sorted[1] + DistanceBetweenUsers
    /\ new_user_addresses' = <<>>
    /\ user_index' = 1
    /\ pc' = "forward"
    /\ UNCHANGED <<dump, process, layout, result, finder>>

\* one test of the while condition of a for loop that walks by stride: the
\* window is added and the walk goes on, or the walk from this user ends
WalkStep(stride) ==
    /\ user_index <= Len(user_addresses)
    /\ \E contents \in {ExtractSurroundings(next_user_address, 0, UserSubpatternSize)} :
           IF WhileNextIsNewUser /\ ~IsNone(contents)
           THEN /\ raw_users' = Append(raw_users, Val(contents))
                /\ new_user_addresses' = Append(new_user_addresses, next_user_address)
                /\ next_user_address' = next_user_address + stride
                /\ UNCHANGED user_index
           ELSE /\ user_index' = user_index + 1
                /\ next_user_address' =
                       IF user_index + 1 <= Len(user_addresses)
                       THEN user_addresses[user_index + 1] + stride
                       ELSE 0
                /\ UNCHANGED <<raw_users, new_user_addresses>>
    /\ UNCHANGED <<dump, process, layout, result, finder, user_addresses, pc>>

\* the loop over the users that follow in memory
WalkForward ==
    /\ pc = "forward"
    /\ WalkStep(DistanceBetweenUsers)

\* user_addresses.sort(reverse=True) and the entry of the second for loop
TurnBackward ==
    /\ pc = "forward"
    /\ user_index > Len(user_addresses)
    /\ user_addresses' = Reverse(SortAddresses(user_addresses))
    /\ user_index' = 1
    /\ next_user_address' = IF user_addresses = <<>> THEN 0
                            ELSE Reverse(SortAddresses(user_addresses))[1]
                                     - DistanceBetweenUsers
    /\ pc' = "backward"
    /\ UNCHANGED <<dump, process, layout, result, finder, raw_users, new_user_addresses>>

\* the loop over the users that precede in memory
WalkBackward ==
    /\ pc = "backward"
    /\ WalkStep(0 - DistanceBetweenUsers)

\* return raw_users
ReturnRawUsers ==
    /\ pc = "backward"
    /\ user_index > Len(user_addresses)
    /\ pc' = "users_returned"
    /\ UNCHANGED <<dump, process, layout, result, finder, walk>>

(***************************************************************************)
(* SpecUsers: extract_users over a dump with an array of UserData slots,   *)
(* 592 bytes apart.  A slot is "digits" (a user whose phone QString holds  *)
(* the digits 12025550123), "plus" (a user whose phone QString holds       *)
(* +12025550123) or "bad" (its phone pointer is null).  The QStrings lie   *)
(* behind the slots in the same region, or in a region of their own; then  *)
(* the region of the slots ends tail bytes behind the window of the last   *)
(* slot, and it starts at UsersBase or at address 0.                       *)
(***************************************************************************)

MaxUsers == 3

UsersBase == 16 * 256
FarHeapBase == 80 * 256
\* room for the largest QString block of a layout, 50 bytes
HeapBlockStride == 4 * 16

SlotKinds == {"digits", "plus", "bad"}

SlotAddress(k) == UsersBase + (k - 1) * DistanceBetweenUsers

HeapBase(slots, heap) ==
    IF heap = "same" THEN SlotAddress(Len(slots) + 1) ELSE FarHeapBase

NameBlockAddress(slots, heap) == HeapBase(slots, heap)
PhoneBlockAddress(slots, heap, k) == HeapBase(slots, heap) + k * HeapBlockStride

\* "12025550123" in UTF-16-LE
PhoneDigitsText == <<49, 0, 50, 0, 48, 0, 50, 0, 53, 0, 53, 0, 53, 0, 48, 0,
                     49, 0, 50, 0, 51, 0>>
\* "+12025550123" in UTF-16-LE
PhonePlusText == <<43, 0>> \o PhoneDigitsText

\* the bytes of slot k: the pointers of a UserData, and its phone QString
SlotMem(slots, heap, k) ==
    LET name == PackQ(NameBlockAddress(slots, heap))
        a == SlotAddress(k)
        text == IF slots[k] = "plus" THEN PhonePlusText ELSE PhoneDigitsText
    IN  PutBytes(a + PeerOffsetName, name)
        @@ PutBytes(a + UserOffsetFirstname, name)
        @@ PutBytes(a + UserOffsetLastname, name)
        @@ PutBytes(a + UserOffsetUsername, name)
        @@ (IF slots[k] = "bad" THEN <<>>
            ELSE PutBytes(a + UserOffsetPhone,
                          PackQ(PhoneBlockAddress(slots, heap, k)))
                 @@ PutBytes(PhoneBlockAddress(slots, heap, k),
                             QStringBlock(Len(text) \div 2, QStringTag, text)))

UsersMem(slots, heap) ==
    MergeAll({SlotMem(slots, heap, k) : k \in 1..Len(slots)})
        @@ PutBytes(NameBlockAddress(slots, heap),
                    QStringBlock(1, QStringTag, <<65, 0>>))

HeapSize(slots) == (Len(slots) + 1) * HeapBlockStride

UsersRegions(slots, heap, tail) ==
    IF heap = "same"
    THEN <<[base |-> UsersBase,
            size |-> Len(slots) * DistanceBetweenUsers + HeapSize(slots)]>>
    ELSE <<[base |-> UsersBase,
            size |-> (Len(slots) - 1) * DistanceBetweenUsers
                         + UserSubpatternSize + tail],
           [base |-> FarHeapBase, size |-> HeapSize(slots)]>>

\* the region of the slots of a layout with a heap of its own starts at
\* address 0 when low holds: the address a byte of the layout gets
Relocated(low, a) ==
    IF low /\ a < FarHeapBase THEN a - UsersBase ELSE a

RelocatedRegions(low, rs) ==
    [i \in 1..Len(rs) |->
        [base |-> Relocated(low, rs[i].base), size |-> rs[i].size]]

RelocatedMem(low, m) ==
    LET placed == {<<Relocated(low, a), m[a]>> : a \in DOMAIN m}
    IN  [a \in {pair[1] : pair \in placed} |->
            (CHOOSE pair \in placed : pair[1] = a)[2]]

InitUsers ==
    /\ \E n \in 1..MaxUsers :
          \E slots \in [1..n -> SlotKinds], heap \in {"same", "far"},
             tail \in {0, 1, 16}, low \in BOOLEAN :
              /\ (heap = "same" => (tail = 16 /\ ~low))
              /\ regions = RelocatedRegions(low, UsersRegions(slots, heap, tail))
              /\ mem = RelocatedMem(low, UsersMem(slots, heap))
              /\ layout = [slots |-> slots, heap |-> heap, tail |-> tail,
                           low |-> low]
    /\ pc = "extract_users"
    /\ result = NoResult
    /\ IdleFinder
    /\ IdleExtractor
    /\ AllReadable
    /\ IdleProcess

NextUsers ==
    \/ FindUsersByPhoneNumber
    \/ WalkForward
    \/ TurnBackward
    \/ WalkBackward
    \/ ReturnRawUsers

SpecUsers == InitUsers /\ [][NextUsers]_vars

\* extract_users runs in one thread and calls nothing that waits: a step
\* that can be taken is taken
FairSpecUsers == SpecUsers /\ WF_vars(NextUsers)

\* the base addresses recorded so far, those found by phone number first
RecordedUserAddresses == user_addresses \o new_user_addresses

\* C28: extract_users terminates, every forward and every backward walk
\* stops after finitely many steps (also the walks that leave every region
\* below address 0), and no base address is recorded twice.
C28_ExtractUsersTerminates ==
    /\ <>(pc = "users_returned")
    /\ [](PairwiseDistinct(RecordedUserAddresses)
            /\ Len(raw_users) = Len(RecordedUserAddresses))

\* extract_users has returned after a backward walk from the user at
\* address 0, which tests an address below 0, and after walks that stopped
\* at an address already known
C28_Witness ==
    /\ pc = "users_returned"
    /\ layout.low
    /\ InList(0, RecordedUserAddresses)
    /\ Len(user_addresses) >= 2
    /\ new_user_addresses # <<>>
    /\ \E i \in 1..Len(RecordedUserAddresses) :
           InList(RecordedUserAddresses[i] + DistanceBetweenUsers,
                  RecordedUserAddresses)

\* the addresses whose windows extract_users has returned
ReturnedUserAddresses ==
    {user_addresses[i] : i \in 1..Len(user_addresses)}
        \cup {new_user_addresses[i] : i \in 1..Len(new_user_addresses)}

\* a neighbour that is a user and whose whole window lies in one region
IsReadableUser(a) == IsRawUser(a) /\ InOneRegion(a, UserSubpatternSize)

\* the least set that holds S and every readable neighbour, one stride up
\* or down, of an address it holds
RECURSIVE StrideClosure(_)
StrideClosure(S) ==
    LET neighbours == UNION {{a + DistanceBetweenUsers, a - DistanceBetweenUsers} :
                                 a \in S}
        T == S \cup {a \in neighbours : IsReadableUser(a)}
    IN  IF T = S THEN S ELSE StrideClosure(T)

\* the addresses found by phone number: user_addresses is only reordered
\* after the first part of extract_users
PhoneAnchoredAddresses == {user_addresses[i] : i \in 1..Len(user_addresses)}

\* C5: the addresses whose windows extract_users returns are exactly the
\* closure of the phone-anchored addresses under 592-byte strides in both
\* directions: a neighbour of a returned address is returned whenever
\* is_raw_user holds for it and its full window can be read.
C5_ReturnedIsStrideClosure ==
    pc = "users_returned" =>
        /\ ReturnedUserAddresses = StrideClosure(PhoneAnchoredAddresses)
        /\ Len(raw_users) = Len(user_addresses) + Len(new_user_addresses)

\* the text of the phone QString of the UserData at U
PhoneTextOf(U) ==
    ExactText(LEToInt(MemBytes(U + UserOffsetPhone, 8)))

\* one region that holds one UserData, at UsersBase, and behind it the
\* contents of the QStrings its five pointers target
OneUserInOneRegion ==
    /\ Len(regions) = 1
    /\ Len(layout.slots) = 1
    /\ IsRawUser(UsersBase)

PhoneHits ==
    LET phone_numbers == FindMatchesAndTheirAddresses(
                             [i \in 1..Len(regions) |-> PhoneCandidates(regions[i])])
    IN  {phone_numbers[i] : i \in 1..Len(phone_numbers)}

\* the addresses of the bytes of the regions
RegionAddresses ==
    UNION {regions[i].base .. (regions[i].base + regions[i].size - 1) :
               i \in 1..Len(regions)}

\* the 8-byte little-endian encoding of C is stored at M in a region
IsStoredAt(C, M) == InOneRegion(M, 8) /\ MemBytes(M, 8) = PackQ(C)

\* the pairs (P, M): P a hit of the phone number pattern, P - 24 the address
\* of QString contents, M an address where P - 24 is stored, the address
\* U = M - 560 a user, and the n bytes from U inside one region
PhoneAnchorPairs(n) ==
    {pair \in PhoneHits \X RegionAddresses :
        /\ IsAddressOfQstringContents(pair[1] - QStringHeaderSize)
        /\ IsStoredAt(pair[1] - QStringHeaderSize, pair[2])
        /\ IsRawUser(pair[2] - BytesAbovePhone)
        /\ InOneRegion(pair[2] - BytesAbovePhone, n)}

\* the windows recorded by the first part of extract_users are those of the
\* pairs, one window for each pair
PhonePhaseRecords(pairs) ==
    /\ Len(user_addresses) = Cardinality(pairs)
    /\ PhoneAnchoredAddresses = {pair[2] - BytesAbovePhone : pair \in pairs}
    /\ {raw_users[i] : i \in 1..Len(user_addresses)}
           = {MemBytes(pair[2] - BytesAbovePhone, UserSubpatternSize) :
                  pair \in pairs}

\* C23: the first part of extract_users records the window [U, U + 576),
\* U = M - 560, for exactly the pairs (P, M) where P is a hit of the phone
\* number pattern, P - 24 is the address of QString contents, P - 24 is
\* stored at M, is_raw_user(U) holds and [U, U + 576) lies in a region.
C23_PhonePhaseRecordsExactlyAnchoredUsers ==
    pc \in {"forward", "backward", "users_returned"} =>
        PhonePhaseRecords(PhoneAnchorPairs(UserSubpatternSize))

\* C23 with the window required to end before the last byte of its region
C23_WhenWindowEndsInsideRegion ==
    pc \in {"forward", "backward", "users_returned"} =>
        PhonePhaseRecords(PhoneAnchorPairs(UserSubpatternSize + 1))

(***************************************************************************)
(* SpecMessages: extract_messages over a dump with a region of message     *)
(* objects, 176 bytes apart, and a region with the contents of their       *)
(* _timeText QStrings.  A slot is "time" (its _timeText is 12:34), "short" *)
(* (9:05), "text" (hello, not a time), "shared" (it points to the          *)
(* _timeText of the first slot) or "null" (no pointer).  The region of the *)
(* message objects starts lead bytes behind the start of the first window  *)
(* and ends tail bytes behind the window of the last slot.                 *)
(***************************************************************************)
BytesAboveTimetext == 10 * 16
BytesBelowTimetext == 16

\* [0-5] of a bytes pattern
IsDigitByteUpTo(b, last) == 48 <= b /\ b <= 48 + last

\* \d\x00:\x00[0-5]\x00\d\x00 matches at offset q of region r
TimetextTailMatches(r, q) ==
    /\ q + 8 <= r.size
    /\ IsDigitByte(RegionByte(r, q)) /\ RegionByte(r, q + 1) = 0
    /\ RegionByte(r, q + 2) = 58 /\ RegionByte(r, q + 3) = 0
    /\ IsDigitByteUpTo(RegionByte(r, q + 4), 5) /\ RegionByte(r, q + 5) = 0
    /\ IsDigitByte(RegionByte(r, q + 6)) /\ RegionByte(r, q + 7) = 0

\* the offset where a match of ([0-2]\x00)?\d\x00:\x00[0-5]\x00\d\x00 from
\* offset p ends, -1 if there is none: the optional group is tried first
TimetextMatchEnd(r, p) ==
    IF /\ p + 2 <= r.size
       /\ IsDigitByteUpTo(RegionByte(r, p), 2) /\ RegionByte(r, p + 1) = 0
       /\ TimetextTailMatches(r, p + 2)
    THEN p + 10
    ELSE IF TimetextTailMatches(r, p) THEN p + 8
    ELSE -1

TimetextCandidates(r) ==
    {[start |-> p, end |-> TimetextMatchEnd(r, p)] :
         p \in {q \in 0..(r.size - 1) : TimetextMatchEnd(r, q) # -1}}

\* the windows around the addresses where the address of the contents of a
\* _timeText is stored, in the order they are found
MessagesOfTimetext(timetext_address) ==
    LET timetext_contents_address == timetext_address - QStringHeaderSize
    IN  IF ~IsAddressOfQstringContents(timetext_contents_address) THEN <<>>
        ELSE LET matches ==
                     FindMatchesAndTheirAddresses(
                         [i \in 1..Len(regions) |->
                             LiteralCandidates(regions[i],
                                               PackQ(timetext_contents_address))])
                 found == SelectSeq(matches, LAMBDA match :
                              ~IsNone(ExtractSurroundings(match, BytesAboveTimetext,
                                                          BytesBelowTimetext)))
             IN  [k \in 1..Len(found) |->
                     Val(ExtractSurroundings(found[k], BytesAboveTimetext,
                                             BytesBelowTimetext))]

MaxMessageSlots == 2

MessagesBase == 16 * 256
TimetextHeapBase == 80 * 256
MessageStride == BytesAboveTimetext + BytesBelowTimetext

MessageSlotKinds == {"time", "short", "text", "shared", "null"}

\* "12:34", "9:05", "hello" in UTF-16-LE
TimeText == <<49, 0, 50, 0, 58, 0, 51, 0, 52, 0>>
ShortTimeText == <<57, 0, 58, 0, 48, 0, 53, 0>>
NoTimeText == <<104, 0, 101, 0, 108, 0, 108, 0, 111, 0>>

\* the address where slot k stores the pointer to its _timeText
TimetextPointerAddress(lead, k) ==
    MessagesBase - lead + (k - 1) * MessageStride + BytesAboveTimetext

TimetextBlockAddress(k) == TimetextHeapBase + (k - 1) * HeapBlockStride

MessageSlotMem(slots, lead, k) ==
    LET text == IF slots[k] = "short" THEN ShortTimeText
                ELSE IF slots[k] = "text" THEN NoTimeText ELSE TimeText
        block == IF slots[k] = "shared" THEN TimetextBlockAddress(1)
                 ELSE TimetextBlockAddress(k)
    IN  IF slots[k] = "null" THEN <<>>
        ELSE PutBytes(TimetextPointerAddress(lead, k), PackQ(block))
             @@ PutBytes(block, QStringBlock(Len(text) \div 2, QStringTag, text))

InitMessages ==
    /\ \E n \in 1..MaxMessageSlots :
          \E slots \in [1..n -> MessageSlotKinds], lead \in {0, 16},
             tail \in {0, 1, 16} :
              /\ regions = <<[base |-> MessagesBase,
                              size |-> n * MessageStride - lead + tail],
                             [base |-> TimetextHeapBase,
                              size |-> n * HeapBlockStride]>>
              /\ mem = MergeAll({MessageSlotMem(slots, lead, k) : k \in 1..n})
              /\ layout = [slots |-> slots, lead |-> lead, tail |-> tail]
    /\ pc = "extract_messages"
    /\ result = NoResult
    /\ IdleFinder
    /\ IdleExtractor
    /\ AllReadable
    /\ IdleProcess

\* extract_messages, lines 122-127: the matches of timetext_pattern
FindTimetexts ==
    /\ pc = "extract_messages"
    /\ result' = [op |-> "extract_messages",
                  timetexts |-> FindMatchesAndTheirAddresses(
                                    [i \in 1..Len(regions) |->
                                        TimetextCandidates(regions[i])]),
                  index |-> 1,
                  raw_messages |-> <<>>]
    /\ pc' = "timetexts"
    /\ UNCHANGED <<dump, process, layout, finder, walk>>

\* extract_messages, lines 128-145: one pass of the loop over timetexts
ExamineTimetext ==
    /\ pc = "timetexts"
    /\ result.index <= Len(result.timetexts)
    /\ \E found \in {MessagesOfTimetext(result.timetexts[result.index])} :
           result' = [result EXCEPT !.index = @ + 1,
                                    !.raw_messages = @ \o found]
    /\ UNCHANGED <<dump, process, layout, pc, finder, walk>>

\* return raw_messages
ReturnRawMessages ==
    /\ pc = "timetexts"
    /\ result.index > Len(result.timetexts)
    /\ pc' = "messages_returned"
    /\ UNCHANGED <<dump, process, layout, result, finder, walk>>

NextMessages ==
    \/ FindTimetexts
    \/ ExamineTimetext
    \/ ReturnRawMessages

SpecMessages == InitMessages /\ [][NextMessages]_vars

\* the addresses T of the hits of the timetext pattern
TimetextHits ==
    LET timetexts == FindMatchesAndTheirAddresses(
                         [i \in 1..Len(regions) |-> TimetextCandidates(regions[i])])
    IN  {timetexts[i] : i \in 1..Len(timetexts)}

\* the pairs (T, M): T a hit of the timetext pattern, T - 24 the address of
\* QString contents, M an address where T - 24 is stored, and the n bytes
\* from M - 160 inside one region
TimetextPairs(n) ==
    {pair \in TimetextHits \X RegionAddresses :
        /\ IsAddressOfQstringContents(pair[1] - QStringHeaderSize)
        /\ IsStoredAt(pair[1] - QStringHeaderSize, pair[2])
        /\ InOneRegion(pair[2] - BytesAboveTimetext, n)}

\* the windows returned are those of the pairs, one window for each pair
ReturnsWindowsOf(pairs) ==
    /\ Len(result.raw_messages) = Cardinality(pairs)
    /\ {result.raw_messages[i] : i \in 1..Len(result.raw_messages)}
           = {MemBytes(pair[2] - BytesAboveTimetext, MessageStride) :
                  pair \in pairs}

\* C24: extract_messages returns one window of 176 bytes, 160 above and 16
\* below the reference, for each pair (T, M) where T is a hit of the
\* timetext pattern, T - 24 is the address of QString contents, T - 24 is
\* stored at M and the window lies within the region of M; nothing else.
C24_OneWindowForEachReference ==
    pc = "messages_returned" => ReturnsWindowsOf(TimetextPairs(MessageStride))

\* C24 with the window required to end before the last byte of its region
C24_WhenWindowEndsInsideRegion ==
    pc = "messages_returned" => ReturnsWindowsOf(TimetextPairs(MessageStride + 1))

\* C24: two messages that refer to the same _timeText give two windows
C24_Example ==
    /\ pc = "messages_returned"
    /\ Len(layout.slots) = 2
    /\ layout.slots[2] = "shared"
    /\ Len(result.raw_messages) = 2

(***************************************************************************)
(* SpecScan: find_matches_and_their_addresses and extract_surroundings     *)
(* over a dump directory whose files can become unreadable.  The scan      *)
(* opens and maps the listed files one after the other; a file can stop    *)
(* being readable (removed, permissions changed, truncated to no bytes)    *)
(* before the scan reaches it.  open() and mmap.mmap() raise OSError or    *)
(* ValueError for such a file and neither function has an except clause,   *)
(* so the exception ends the call and find_accounts.                       *)
(***************************************************************************)
ScanRegionSize == 32
ScanRegions == 3

\* a phone number text of seven digits and its terminator
ScanPhoneText == <<49, 0, 50, 0, 51, 0, 52, 0, 53, 0, 54, 0, 55, 0, 0, 0>>

ScanBase(i) == i * 16 * 256

InitScan ==
    /\ \E with_phone \in SUBSET (1..ScanRegions), offset \in {0, 8} :
          /\ regions = [i \in 1..ScanRegions |->
                           [base |-> ScanBase(i), size |-> ScanRegionSize]]
          /\ mem = MergeAll({PutBytes(ScanBase(i) + offset, ScanPhoneText) :
                                i \in with_phone})
          /\ layout = [kind |-> "scan", with_phone |-> with_phone]
    /\ unreadable = {}
    /\ pc = "scan"
    /\ result = [op |-> "find_matches_and_their_addresses", file |-> 1,
                 matches |-> <<>>]
    /\ IdleFinder
    /\ IdleExtractor
    /\ IdleProcess

\* the file of region i stops being readable
BecomeUnreadable ==
    /\ pc \in {"scan", "scanned"}
    /\ \E i \in 1..Len(regions) :
           /\ i \notin unreadable
           /\ unreadable' = unreadable \cup {i}
    /\ UNCHANGED <<regions, mem, layout, pc, result, finder, walk, process>>

\* find_matches_and_their_addresses: one round of the loop over the files;
\* open() or mmap.mmap() of an unreadable file raises
ScanFile ==
    /\ pc = "scan"
    /\ result.file <= Len(regions)
    /\ IF result.file \in unreadable
       THEN /\ pc' = "raised"
            /\ result' = [op |-> "find_matches_and_their_addresses",
                          raised |-> "OSError"]
       ELSE /\ pc' = pc
            /\ LET starts == FindIterFrom(PhoneCandidates(regions[result.file]), 0)
               IN  result' = [result EXCEPT
                       !.file = @ + 1,
                       !.matches = @ \o [k \in 1..Len(starts) |->
                                            regions[result.file].base + starts[k]]]
    /\ UNCHANGED <<dump, process, layout, finder, walk>>

\* find_matches_and_their_addresses: return matches
ReturnMatches ==
    /\ pc = "scan"
    /\ result.file > Len(regions)
    /\ pc' = "scanned"
    /\ UNCHANGED <<dump, process, layout, result, finder, walk>>

\* extract_surroundings around a match that was returned: the file of the
\* region is opened and mapped again
ReadAroundMatch ==
    /\ pc = "scanned"
    /\ \E k \in 1..Len(result.matches) :
           LET address == result.matches[k]
               file == CHOOSE i \in 1..Len(regions) : Contains(regions[i], address)
           IN  IF file \in unreadable
               THEN /\ pc' = "raised"
                    /\ result' = [op |-> "extract_surroundings",
                                  raised |-> "OSError"]
               ELSE /\ pc' = "read"
                    /\ result' = [op |-> "extract_surroundings",
                                  address |-> address, above |-> 0, below |-> 2,
                                  value |-> ExtractSurroundings(address, 0, 2)]
    /\ UNCHANGED <<dump, process, layout, finder, walk>>

NextScan ==
    \/ BecomeUnreadable
    \/ ScanFile
    \/ ReturnMatches
    \/ ReadAroundMatch

SpecScan == InitScan /\ [][NextScan]_vars

\* the addresses of the phone numbers in the file of region i
ScanMatchesIn(i) ==
    {regions[i].base + p : p \in {q \in 0..(regions[i].size - 1) :
                                     PhoneMatchEnd(regions[i], q) # -1}}

\* C20: a file that has become unreadable is treated as an empty region: no
\* scan and no read raises, and a scan returns at least the matches of the
\* files that are still readable when it returns.
C20_UnreadableRegionIsSkipped ==
    /\ pc # "raised"
    /\ pc = "scanned" =>
           \A i \in (1..Len(regions)) \ unreadable :
               \A address \in ScanMatchesIn(i) :
                   \E k \in 1..Len(result.matches) : result.matches[k] = address

\* C20 while every file is readable
C20_WhileAllReadable ==
    unreadable = {} => C20_UnreadableRegionIsSkipped

(***************************************************************************)
(* SpecCli: finder.py execute, from the command line to the exit of the    *)
(* process.  Init draws the command line (the memory data path, the        *)
(* platform, -f, -t) and the dump directory (no artifact in it, a user in  *)
(* it, a file that cannot be mapped).  A file is [name, ext]; the dump     *)
(* files of the directory in use are the regions.                          *)
(***************************************************************************)
CliRegion == [base |-> 16 * 256, size |-> 64]
CliDumpFile == [name |-> "1000_40", ext |-> "dmp"]
CliOtherFile == [name |-> "notes", ext |-> "txt"]
CliReportFile == [name |-> "report", ext |-> "json"]

\* the directories before the run: the dumps, a directory without any .dmp
\* file, a directory that -t may name, the working directory
CliDirectories ==
    ("dumps" :> {CliDumpFile, CliOtherFile}) @@ ("empty" :> {CliOtherFile})
        @@ ("old" :> {}) @@ ("cwd" :> {})

CliPaths == {"dumps", "empty", "missing"}
CliPlatforms == {"TELEGRAM_DESKTOP", "WHATSAPP"}
CliFormats == {None, Some("JSON"), Some("XML")}
CliTmpDirs == {None, Some("new"), Some("old")}
CliDumps == {"no_artifacts", "users", "unmappable"}

\* os.path.isdir(path)
IsDir(path) == path \in DOMAIN directories

\* filename.endswith('.dmp')
EndsWithDmp(filename) == filename.ext = "dmp"

\* validate_memory_data_path: the exception it raises, "" when it returns
ValidateMemoryDataPath(memory_data_path) ==
    IF ~IsDir(memory_data_path) THEN "FileNotFoundError"
    ELSE IF ~\E filename \in directories[memory_data_path] : EndsWithDmp(filename)
    THEN "FileNotFoundError"
    ELSE ""

\* find_accounts: the exception that ends it, "" when it returns.
\* find_matches_and_their_addresses does not catch what mmap.mmap raises,
\* and analyze_user is called for every window extract_users returns.
FindAccountsRaised ==
    IF unreadable # {} THEN "ValueError"
    ELSE IF layout.dump = "users" THEN AnalyzeUserRaised(<<>>)
    ELSE ""

InitCli ==
    /\ \E memory_data_path \in CliPaths, platform \in CliPlatforms,
          format \in CliFormats, tmp \in CliTmpDirs, kind \in CliDumps :
          /\ layout = [kind |-> "cli", memory_data_path |-> memory_data_path,
                       platform |-> platform, format |-> format, tmp |-> tmp,
                       dump |-> kind]
          /\ unreadable = IF kind = "unmappable" THEN {1} ELSE {}
    /\ regions = <<CliRegion>>
    /\ mem = <<>>
    /\ directories = CliDirectories
    /\ exit_status = None
    /\ pc = "parse_args"
    /\ result = [op |-> "execute", raised |-> "", memory_data_path |-> "",
                 is_tmp_dir_supplied |-> FALSE, scanned |-> FALSE]
    /\ IdleFinder
    /\ IdleExtractor

\* arg_parser.parse_args(): a value outside the choices of an argument ends
\* the process with SystemExit(2), which `except Exception` does not catch
ParseArgs ==
    /\ pc = "parse_args"
    /\ IF \/ layout.platform # "TELEGRAM_DESKTOP"
          \/ (~IsNone(layout.format) /\ Val(layout.format) # "JSON")
       THEN /\ exit_status' = Some(2)
            /\ pc' = "exited"
       ELSE /\ exit_status' = exit_status
            /\ pc' = "validate_memory_data_path"
    /\ UNCHANGED <<dump, directories, layout, result, finder, walk>>

\* validate_arguments, lines 128-141: the directory is validated, the
\* platform and the format are converted
ValidateArguments ==
    /\ pc = "validate_memory_data_path"
    /\ \E raised \in {ValidateMemoryDataPath(layout.memory_data_path)} :
           IF raised # ""
           THEN /\ result' = [result EXCEPT !.raised = raised]
                /\ pc' = "except"
           ELSE IF \/ layout.platform # "TELEGRAM_DESKTOP"
                   \/ (~IsNone(layout.format) /\ Val(layout.format) # "JSON")
           THEN /\ result' = [result EXCEPT !.raised = "ValueError"]
                /\ pc' = "except"
           ELSE /\ result' = [result EXCEPT
                                 !.memory_data_path = layout.memory_data_path]
                /\ pc' = "tmp_dir"
    /\ UNCHANGED <<dump, process, layout, finder, walk>>

\* validate_arguments, lines 143-150: shutil.copytree(memory_data_path, tmp_dir)
CopyToTmpDir ==
    /\ pc = "tmp_dir"
    /\ IF IsNone(layout.tmp)
       THEN /\ pc' = "find_artifacts"
            /\ UNCHANGED <<directories, result>>
       ELSE IF IsDir(Val(layout.tmp))
       THEN /\ result' = [result EXCEPT !.raised = "FileExistsError"]
            /\ pc' = "except"
            /\ UNCHANGED directories
       ELSE /\ directories' = (Val(layout.tmp) :> directories[result.memory_data_path])
                                  @@ directories
            /\ result' = [result EXCEPT !.is_tmp_dir_supplied = TRUE,
                                        !.memory_data_path = Val(layout.tmp)]
            /\ pc' = "find_artifacts"
    /\ UNCHANGED <<dump, exit_status, layout, finder, walk>>

\* find_artifacts, line 159: ArtifactFinder(memory_data_path, platform,
\* report_format) validates the directory it is given
NewArtifactFinder ==
    /\ pc = "find_artifacts"
    /\ \E raised \in {ValidateMemoryDataPath(result.memory_data_path)} :
           IF raised # ""
           THEN /\ result' = [result EXCEPT !.raised = raised]
                /\ pc' = "except"
           ELSE /\ result' = result
                /\ pc' = "find_accounts"
    /\ UNCHANGED <<dump, process, layout, finder, walk>>

\* find_artifacts, line 160: artifact_finder.find_accounts() reads the files
\* of memory_data_path
FindAccounts ==
    /\ pc = "find_accounts"
    /\ IF FindAccountsRaised # ""
       THEN /\ result' = [result EXCEPT !.scanned = TRUE,
                                        !.raised = FindAccountsRaised]
            /\ pc' = "except"
       ELSE /\ result' = [result EXCEPT !.scanned = TRUE]
            /\ pc' = "generate_report"
    /\ UNCHANGED <<dump, process, layout, finder, walk>>

\* find_artifacts, line 161: JsonWriter.write opens 'report.json' in the
\* working directory
GenerateReport ==
    /\ pc = "generate_report"
    /\ directories' = [directories EXCEPT !["cwd"] = @ \cup {CliReportFile}]
    /\ pc' = "rmtree"
    /\ UNCHANGED <<dump, exit_status, layout, result, finder, walk>>

\* find_artifacts, lines 162-163: shutil.rmtree(memory_data_path)
RemoveTmpDir ==
    /\ pc = "rmtree"
    /\ directories' =
           IF result.is_tmp_dir_supplied
           THEN [d \in DOMAIN directories \ {result.memory_data_path} |->
                    directories[d]]
           ELSE directories
    /\ pc' = "finished"
    /\ UNCHANGED <<dump, exit_status, layout, result, finder, walk>>

\* execute, lines 172-174: the exception is logged and printed
ExceptException ==
    /\ pc = "except"
    /\ pc' = "finished"
    /\ UNCHANGED <<dump, process, layout, result, finder, walk>>

\* main returns: the process exits with status 0
Exit ==
    /\ pc = "finished"
    /\ exit_status' = Some(0)
    /\ pc' = "exited"
    /\ UNCHANGED <<dump, directories, layout, result, finder, walk>>

NextCli ==
    \/ ParseArgs
    \/ ValidateArguments
    \/ CopyToTmpDir
    \/ NewArtifactFinder
    \/ FindAccounts
    \/ GenerateReport
    \/ RemoveTmpDir
    \/ ExceptException
    \/ Exit

SpecCli == InitCli /\ [][NextCli]_vars

\* the command line names one of the five error cases of the CLI
MissingDirectory == layout.memory_data_path \notin DOMAIN CliDirectories
DirectoryWithoutDmp ==
    /\ layout.memory_data_path \in DOMAIN CliDirectories
    /\ ~\E filename \in CliDirectories[layout.memory_data_path] :
            EndsWithDmp(filename)
UnsupportedPlatform == layout.platform # "TELEGRAM_DESKTOP"
UnsupportedFormat == ~IsNone(layout.format) /\ Val(layout.format) # "JSON"
TmpDirExists ==
    ~IsNone(layout.tmp) /\ Val(layout.tmp) \in DOMAIN CliDirectories
CliErrorCase ==
    \/ MissingDirectory
    \/ DirectoryWithoutDmp
    \/ UnsupportedPlatform
    \/ UnsupportedFormat
    \/ TmpDirExists

\* C21: in each of the five error cases the process exits with a non-zero
\* status, and it has not read any dump file.
C21_ErrorCasesExitNonZero ==
    (layout.kind = "cli" /\ pc = "exited" /\ CliErrorCase) =>
        /\ Val(exit_status) # 0
        /\ ~result.scanned

\* C21, the part that holds: in the five error cases no dump file is read,
\* and an unsupported platform or format exits with a non-zero status
C21_ErrorCasesStopBeforeScanning ==
    (layout.kind = "cli" /\ CliErrorCase) =>
        /\ ~result.scanned
        /\ (pc = "exited" /\ (UnsupportedPlatform \/ UnsupportedFormat))
               => Val(exit_status) # 0

\* the run has copied the dumps to the directory of -t
CreatedTheCopy == layout.kind = "cli" /\ result.is_tmp_dir_supplied

\* C22: every run that copied the dumps to the directory of -t ends with
\* that directory no longer existing, the copy is made before any dump file
\* is read, and the original dump directory is never modified.
C22_TmpDirDeletedAfterProcessing ==
    layout.kind = "cli" =>
        /\ (CreatedTheCopy /\ pc = "exited") => ~IsDir(Val(layout.tmp))
        /\ (result.scanned /\ ~IsNone(layout.tmp)) => CreatedTheCopy
        /\ \A d \in DOMAIN CliDirectories \ {"cwd"} :
               IsDir(d) /\ directories[d] = CliDirectories[d]

\* C22 for the runs whose processing raises no exception
C22_WhenProcessingReturns ==
    (layout.kind = "cli" /\ result.raised # "") \/ C22_TmpDirDeletedAfterProcessing

====
